---- MODULE Spec2Model ----
(***************************************************************************)
(* A model of the uae-estate-vista application: the Express proxy routes   *)
(* of server/routes.ts and the client's data hooks, geocoding effects and  *)
(* selection handlers.  The components share no state, so one behaviour    *)
(* follows one of them: `mounted' names the component a behaviour is       *)
(* about, and the variables of the others stay at their initial values.    *)
(***************************************************************************)
EXTENDS Integers, Sequences, FiniteSets, TLC

VARIABLES
    mounted,      \* the component this behaviour follows
    \* ---- server (server/routes.ts) ----
    apiKey,       \* process.env.GOOGLE_MAPS_API_KEY
    probe,        \* testGoogleAPI(): "notrun", "pending", "done"
    reqs,         \* slot -> the HTTP request handled in it (upstream: history,
                  \* how its upstream call ended)
    outbound,     \* the outbound requests to Google made so far
    \* ---- client data hooks ----
    hkToken,      \* accessToken (token prop or the local-storage entry)
    hkCenter,     \* center prop / coordinates argument
    hkRoute,      \* route prop (useSearchBoxAmenities)
    hkCats,       \* categories prop (useSearchBoxAmenities)
    hkCur,        \* the run started last, while it is in flight
    hkOld,        \* a run started earlier that is still in flight
    hkResults,    \* results / data / amenities state, with the run that set it
    hkLoading,    \* loading / isLoading state
    hkError,      \* error state
    hkLast,       \* history: how the run that ended in the last step ended, and
                  \* whether the run in flight replaced one that was cancelled
    \* ---- geocoding effects (SearchBar, ValuationForm) ----
    geToken,      \* token prop or the local-storage entry
    geQ,          \* q / building: the text in the input
    geTimer,      \* the pending setTimeout of the effect, with the text it captured
    geFetches,    \* the geocoding requests in flight, oldest first
    gePlaces,     \* places state / the place last handed to onPlaceSelect
    geSince,      \* history: ms since the text last changed (capped)
    geCount,      \* history: requests issued since the text last changed
    geLatest,     \* history: the query of the request issued last
    geLast,       \* history: the request issued or answered in the last step
    \* ---- selection handlers (Index, RealEstateMap) ----
    seToken,      \* token
    seSelected,   \* selected
    seDetails,    \* selectedPropertyDetails: the property it describes
    sePOI,        \* selectedPOI: the coordinates it describes
    seLookups,    \* the lookups in flight, oldest first
    seLatest,     \* history: the property / coordinates the user selected last
    seFresh,      \* history: whether the lookups of the last selection delivered
    \* ---- react-query hooks ----
    quKey,        \* coordinates in the queryKey
    quStatus,     \* "idle", "fetching", "success", "error"
    quFailureCount, \* failureCount of the query
    quFetches,    \* history: requests issued for the query since its key was set
    \* ---- functions followed on their own ----
    fnArgs,       \* the arguments of the call
    fnResult,     \* what the call returned
    \* ---- the page's tool toggles (pages/Index.tsx) ----
    directionsEnabled,  \* directionsEnabled state
    isochroneEnabled,   \* isochroneSettings.enabled / isoEnabled state
    rendered,     \* the state values the handlers of the last render closed over
    routeTimers,  \* pending setTimeout callbacks of handleRouteTo
    handled,      \* history: handler calls since the last render
    \* ---- the Mapbox requests of RealEstateMap ----
    mrToken,      \* token prop
    mrStored,     \* the MAPBOX_PUBLIC_TOKEN entry of localStorage
    mrMap,        \* whether mapRef.current is a live map
    mrSent,       \* history: the requests sent, with the tokens at that time
    \* ---- the 3d-buildings layer of RealEstateMap ----
    b3Iso,        \* isochrone?.enabled prop
    b3Dir,        \* directionsEnabled prop
    b3Closure,    \* the props the style.load handler of the map closed over
    b3StyleLoaded,  \* map.isStyleLoaded()
    b3Layer,      \* the layer: "absent", or its visibility "visible" / "none"
    b3Ctl,        \* directionsCtlRef.current is set
    b3Import,     \* the import() of the directions effect is pending
    b3Fetches,    \* Directions requests of routeTo in flight
    b3Retry,      \* routeTo waits for style.load to run again
    \* ---- building selection on the map ----
    selectedBuildingIds,  \* selectedBuildingIds.current
    featureSelected,      \* the buildings whose feature-state has selected = true
    buildingMarkers,      \* the buildings a 'building-marker' source was added for
    lastClick,            \* history: the layer and the feature of the last click,
                          \* and the ids it found selected
    \* ---- the flights of the map ----
    flyTo,                \* flyTo prop: NoFlyTo or the timestamp of the request
    lastFlyToTimestamp,   \* lastFlyToTimestamp.current
    flyToInProgress,      \* flyToInProgress.current
    flyTimer,             \* the 3000 ms timer that resets flyToInProgress is pending
    executed,             \* history: timestamp -> flights made for requests with it
    flyReq,               \* history: the current flyTo request: whether its timestamp
                          \* was fresh, whether the map has flown to its target,
                          \* whether map.flyTo threw, whether it arrived in a flight
    lastFlight,           \* history: the flight the last step made, or the
                          \* request it skipped
    \* ---- the isochrone effect of RealEstateMap ----
    isEnabled,     \* isochrone?.enabled prop
    isStyleLoaded, \* map.isStyleLoaded()
    isWaiting,     \* addIsochrones waits for 'style.load' (map.once)
    isFetches,     \* Isochrone requests in flight: of the current effect (cur)
                   \* and of earlier effects (stale)
    isShown,       \* the 'isochrones' source and its two layers are on the map
    isRemoved,     \* history: the effect for enabled = false has removed them
                   \* and isochrones have not been enabled since
    \* ---- the directions effect of RealEstateMap ----
    dcEnabled,     \* directionsEnabled prop
    dcImports,     \* import() calls of the effect still pending
    dcAttached,    \* directions controls attached to the map
    dcCtlRef,      \* directionsCtlRef.current is set
    dcHandlers,    \* route click handlers registered on the map
    dcHandlerRef,  \* routeClickHandlerRef.current is set
    dcRouteLine,   \* the 'route' source and the 'route-line' layer are on the map
    dcRouteFetches \* Directions requests of the fallback handlers in flight

srvVars == <<apiKey, probe, reqs, outbound>>
geVars == <<geToken, geQ, geTimer, geFetches, gePlaces, geSince, geCount, geLatest, geLast>>
seVars == <<seToken, seSelected, seDetails, sePOI, seLookups, seLatest, seFresh>>
quVars == <<quKey, quStatus, quFailureCount, quFetches>>
hkVars == <<hkToken, hkCenter, hkRoute, hkCats, hkCur, hkOld,
            hkResults, hkLoading, hkError, hkLast>>
fnVars == <<fnArgs, fnResult>>
pgVars == <<directionsEnabled, isochroneEnabled, rendered, routeTimers, handled>>
mrVars == <<mrToken, mrStored, mrMap, mrSent>>
b3Vars == <<b3Iso, b3Dir, b3Closure, b3StyleLoaded, b3Layer, b3Ctl, b3Import,
           b3Fetches, b3Retry>>
bsVars == <<selectedBuildingIds, featureSelected, buildingMarkers, lastClick>>
flVars == <<flyTo, lastFlyToTimestamp, flyToInProgress, flyTimer, executed, lastFlight,
           flyReq>>
isVars == <<isEnabled, isStyleLoaded, isWaiting, isFetches, isShown, isRemoved>>
dcVars == <<dcEnabled, dcImports, dcAttached, dcCtlRef, dcHandlers, dcHandlerRef, dcRouteLine,
           dcRouteFetches>>
mpVars == <<pgVars, mrVars, b3Vars, bsVars, flVars, isVars, dcVars>>
vars == <<mounted, srvVars, hkVars, geVars, seVars, quVars, fnVars, mpVars>>

NULL == "null"

(***************************************************************************)
(* Bounds of the model.                                                    *)
(***************************************************************************)
NumSlots == 2          \* HTTP requests the server handles at the same time
MaxLen == 4            \* characters in the text of an input
MaxInFlight == 2       \* geocoding requests in flight at the same time
MaxRequests == 2       \* geocoding requests followed per text
MaxLookups == 3        \* selection lookups in flight at the same time
MaxResults == 3        \* entries in the results of a nearby search

Slots == 1..NumSlots

(***************************************************************************)
(* SERVER: server/routes.ts and its four-route variant.                    *)
(***************************************************************************)

\* The values of the environment variable: not set, set to the empty
\* string, set to a key.
KeyValues == {"unset", "", "AIzaKey"}

\* `!googleApiKey' is false: a key is configured.
HasKey(k) == k \notin {"unset", ""}

GetRoutes == {"/api/images/streetview", "/api/images/satellite", "/api/places/nearby"}
PostRoutes == {"/api/images/building"}
Routes == GetRoutes \cup PostRoutes

\* Query parameters lat and lng: absent ("") or present.
ParamValues == {"", "25.2048"}

\* The body of POST /api/images/building: req.body undefined, a body
\* without usable coordinates, a body with coordinates of length 2.
BodyKinds == {"undefined", "badcoords", "coords"}

KeyError == "Google Maps API key not configured"
LatLngError == "Latitude and longitude are required"
CoordsError == "Valid coordinates [lng, lat] are required"

NoResponse == [status |-> 0, error |-> "none", ctype |-> "none", body |-> "none"]

JsonError(st, msg) == [status |-> st, error |-> msg, ctype |-> "application/json", body |-> "error"]

\* The checks a GET route makes before it builds the upstream URL: the key
\* first, then lat and lng.  NoResponse: the handler goes on to fetch.
GetGuardLatLngFirst(key, lat, lng) ==
    IF lat = "" \/ lng = "" THEN JsonError(400, LatLngError)
    ELSE IF ~HasKey(key) THEN JsonError(400, KeyError)
    ELSE NoResponse

GetGuard(key, lat, lng) ==
    IF ~HasKey(key) THEN JsonError(400, KeyError)
    ELSE IF lat = "" \/ lng = "" THEN JsonError(400, LatLngError)
    ELSE NoResponse

\* POST /api/images/building: no outbound call; the key only decides
\* whether the proxy URLs are part of the answer.
BuildingImages(key, bodyKind) ==
    IF bodyKind = "undefined"
    THEN JsonError(500, "Failed to fetch building images")
    ELSE IF bodyKind = "badcoords"
    THEN JsonError(400, CoordsError)
    ELSE [status |-> 200, error |-> "none", ctype |-> "application/json",
          body |-> IF HasKey(key) THEN "proxyUrls+stockPhotos" ELSE "stockPhotos"]

IdleReq == [route |-> "none", lat |-> "", lng |-> "", bodyKind |-> "none",
            phase |-> "idle", upstream |-> "none", resp |-> NoResponse]

\* The upstream URL a GET route fetches.
GoogleApi(route) ==
    CASE route = "/api/images/streetview" -> "streetview"
      [] route = "/api/images/satellite" -> "staticmap"
      [] route = "/api/places/nearby" -> "place/nearbysearch"

\* What Google answers: 200, a non-ok status, or the fetch throws; "badbody":
\* a 200 whose body cannot be read (arrayBuffer() / json() rejects).
UpstreamOutcomes == {"200", "403", "404", "500", "throw", "badbody"}

UpstreamStatus(o) ==
    CASE o = "200" -> 200 [] o = "403" -> 403 [] o = "404" -> 404 [] o = "500" -> 500

FailedMessage(route) ==
    CASE route = "/api/images/streetview" -> "Failed to fetch Street View image"
      [] route = "/api/images/satellite" -> "Failed to fetch satellite image"
      [] route = "/api/places/nearby" -> "Failed to search nearby places"

UnavailableMessage(route) ==
    CASE route = "/api/images/streetview" -> "Street View image not available"
      [] route = "/api/images/satellite" -> "Satellite image not available"
      [] route = "/api/places/nearby" -> "Places search failed"

\* UpstreamAnswer without the `if (!response.ok)' branch: the body of any
\* answer is passed on as the image.
UpstreamAnswerNoOkCheck(route, o) ==
    IF o = "throw" THEN JsonError(500, FailedMessage(route))
    ELSE [status |-> 200, error |-> "none",
          ctype |-> IF route = "/api/images/satellite" THEN "image/png" ELSE "image/jpeg",
          body |-> "bytes"]

\* The answer of a GET route once the upstream call has ended.
UpstreamAnswer(route, o) ==
    IF o = "throw" THEN JsonError(500, FailedMessage(route))
    ELSE IF o = "badbody"
    THEN \* the image routes have set Content-Type before they read the body,
         \* and res.json() keeps a Content-Type that is already set
         [JsonError(500, FailedMessage(route)) EXCEPT
             !.ctype = CASE route = "/api/images/streetview" -> "image/jpeg"
                         [] route = "/api/images/satellite" -> "image/png"
                         [] route = "/api/places/nearby" -> "application/json"]
    ELSE IF o # "200" THEN JsonError(UpstreamStatus(o), UnavailableMessage(route))
    ELSE CASE route = "/api/images/streetview" ->
                [status |-> 200, error |-> "none", ctype |-> "image/jpeg", body |-> "bytes"]
           [] route = "/api/images/satellite" ->
                [status |-> 200, error |-> "none", ctype |-> "image/png", body |-> "bytes"]
           [] route = "/api/places/nearby" ->
                [status |-> 200, error |-> "none", ctype |-> "application/json", body |-> "buildings"]

\* testGoogleAPI(), called when the module is loaded: it fetches the Street
\* View API whatever process.env.GOOGLE_MAPS_API_KEY holds.
TestGoogleAPI ==
    /\ mounted = "server"
    /\ probe = "notrun"
    /\ probe' = "pending"
    /\ outbound' = outbound \cup {[by |-> "testGoogleAPI", api |-> "streetview", keyed |-> HasKey(apiKey)]}
    /\ UNCHANGED <<mounted, apiKey, reqs, hkVars, geVars, seVars, quVars, fnVars, mpVars>>

TestGoogleAPIDone ==
    /\ mounted = "server"
    /\ probe = "pending"
    /\ probe' = "done"
    /\ UNCHANGED <<mounted, apiKey, reqs, outbound, hkVars, geVars, seVars, quVars, fnVars, mpVars>>

\* A GET request arrives: the handler runs up to its answer or its fetch.
HandleGet(s, route, lat, lng) ==
    /\ mounted = "server"
    /\ probe # "notrun"
    /\ reqs[s].phase = "idle"
    /\ LET g == GetGuard(apiKey, lat, lng)
           r == [route |-> route, lat |-> lat, lng |-> lng, bodyKind |-> "none",
                 phase |-> "idle", upstream |-> "none", resp |-> NoResponse]
       IN  IF g # NoResponse
           THEN /\ reqs' = [reqs EXCEPT ![s] = [r EXCEPT !.phase = "done", !.resp = g]]
                /\ UNCHANGED outbound
           ELSE /\ reqs' = [reqs EXCEPT ![s] = [r EXCEPT !.phase = "fetching"]]
                /\ outbound' = outbound \cup
                       {[by |-> route, api |-> GoogleApi(route), keyed |-> HasKey(apiKey)]}
    /\ UNCHANGED <<mounted, apiKey, probe, hkVars, geVars, seVars, quVars, fnVars, mpVars>>

\* The upstream call of a GET route ends and the route answers.
UpstreamDone(s, o) ==
    /\ mounted = "server"
    /\ reqs[s].phase = "fetching"
    /\ reqs' = [reqs EXCEPT ![s].phase = "done",
                            ![s].upstream = o,
                            ![s].resp = UpstreamAnswer(reqs[s].route, o)]
    /\ UNCHANGED <<mounted, apiKey, probe, outbound, hkVars, geVars, seVars, quVars, fnVars, mpVars>>

\* POST /api/images/building arrives and is answered at once.
HandleBuilding(s, bodyKind) ==
    /\ mounted = "server"
    /\ probe # "notrun"
    /\ reqs[s].phase = "idle"
    /\ reqs' = [reqs EXCEPT ![s] =
                   [route |-> "/api/images/building", lat |-> "", lng |-> "",
                    bodyKind |-> bodyKind, phase |-> "done", upstream |-> "none",
                    resp |-> BuildingImages(apiKey, bodyKind)]]
    /\ UNCHANGED <<mounted, apiKey, probe, outbound, hkVars, geVars, seVars, quVars, fnVars, mpVars>>

\* The connection of an answered request is closed; the slot is free again.
CloseRequest(s) ==
    /\ mounted = "server"
    /\ reqs[s].phase = "done"
    /\ reqs' = [reqs EXCEPT ![s] = IdleReq]
    /\ UNCHANGED <<mounted, apiKey, probe, outbound, hkVars, geVars, seVars, quVars, fnVars, mpVars>>

InitServer ==
    /\ apiKey \in KeyValues
    /\ probe = "notrun"
    /\ reqs = [s \in Slots |-> IdleReq]
    /\ outbound = {}

NextServer ==
    \/ TestGoogleAPI
    \/ TestGoogleAPIDone
    \/ \E s \in Slots, route \in GetRoutes, lat \in ParamValues, lng \in ParamValues :
          HandleGet(s, route, lat, lng)
    \/ \E s \in Slots, o \in UpstreamOutcomes : UpstreamDone(s, o)
    \/ \E s \in Slots, b \in BodyKinds : HandleBuilding(s, b)
    \/ \E s \in Slots : CloseRequest(s)

(***************************************************************************)
(* CLIENT DATA HOOKS: useSearchBoxAmenities, useAmenities,                 *)
(* useNearbyAmenities (fetchNearbyAmenities), usePOIData (fetchPOIDetails).*)
(* A run is one execution of the effect's async function, or one call of   *)
(* the fetch callback; its sub-requests are the fetches it makes.  hkCur   *)
(* is the run started last, hkOld a run started before it that has not     *)
(* ended yet.                                                              *)
(***************************************************************************)
SB == "useSearchBoxAmenities"
AM == "useAmenities"
NB == "useNearbyAmenities"
POI == "usePOIData"
EffectHooks == {SB, AM}
CallHooks == {NB, POI}
Hooks == EffectHooks \cup CallHooks

Tokens == {"", "pk.token"}
Points == {"c1", "c2"}

\* sampleLine(route, step): the sample points of a route.
SampleLine(route) == IF route = "r1" THEN {"p1", "p2"} ELSE {}
RouteValues == {NULL, "r1"}

\* The categories the user can have ticked.
CatChoices == {{}, {"food_drink"}}

\* Object.keys(CATEGORY_QUERIES) of useAmenities.
CATEGORY_QUERIES == {"supermarket", "school", "metro"}

\* amenityTypes of fetchNearbyAmenities, fetched one after the other.
amenityTypes == <<"restaurant,food,cafe", "shopping_mall,store,market",
                  "hospital,pharmacy,clinic", "school,university,college",
                  "bank,atm", "gas_station,transport", "entertainment,gym,park">>

\* How a fetch ends: a 2xx answer with a JSON body, a non-2xx answer with a
\* JSON body, a non-2xx answer whose body is no JSON, a network rejection.
\* fetchNearbyAmenities leaves the body of a non-2xx answer unread.
FailedOutcomes == {"http_json", "http_text", "network"}
OutcomesOf(hook) ==
    IF hook = NB THEN {"ok", "http_json", "network"}
    ELSE {"ok"} \cup FailedOutcomes

\* const centers = route ? sampleLine(route, ...) : (center ? [center] : [])
CentersOf(route, center) ==
    IF route # NULL THEN SampleLine(route)
    ELSE IF center # NULL THEN {center} ELSE {}

\* The sub-requests of a run of each hook.
SubsOf(hook, cats, route, center) ==
    CASE hook = SB -> {<<c, p>> : c \in cats, p \in CentersOf(route, center)}
      [] hook = AM -> {<<c, center>> : c \in CATEGORY_QUERIES}
      [] hook = NB -> {<<amenityTypes[i], center>> : i \in 1..Len(amenityTypes)}
      [] hook = POI -> {<<"/api/places/nearby", center>>}

\* The fetches a run has in flight when it starts: all of them
\* (Promise.all over the array of promises), or the first of the loop.
FirstSubs(hook, cats, route, center) ==
    LET subs == SubsOf(hook, cats, route, center) IN
    [x \in subs |-> IF hook = NB /\ x[1] # amenityTypes[1] THEN "none" ELSE "pending"]

NoRun == [st |-> "none", subs |-> <<>>, aborted |-> FALSE]
NoLast == [how |-> "none", fails |-> {}, hadOk |-> FALSE, gave |-> FALSE, cancelled |-> FALSE]

\* Whether the awaited fetch of a sub-request throws into the try block of
\* the run: fetch rejects, res.json() rejects, or the hook throws on !ok.
\* useSearchBoxAmenities and useAmenities never look at res.ok;
\* fetchNearbyAmenities catches inside its loop; fetchPOIDetails throws.
RejectsNoOkCheck(hook, o) ==
    CASE hook \in EffectHooks -> o \in {"network", "http_text", "aborted"}
      [] hook = NB -> FALSE
      [] hook = POI -> o \in {"network", "http_text", "aborted"}

Rejects(hook, o) ==
    CASE hook \in EffectHooks -> o \in {"network", "http_text", "aborted"}
      [] hook = NB -> FALSE
      [] hook = POI -> o \in {"network", "http_json", "http_text", "aborted"}

\* await Promise.all(proms) over the sub-requests of a run: "rejected" as
\* soon as one rejects, "fulfilled" when all have resolved.  (The loop of
\* fetchNearbyAmenities ends the same way: when no fetch is left.)
PromiseAllSettled(hook, subs) ==
    IF \E x \in DOMAIN subs : subs[x] \in {"pending", "none"} THEN "pending"
    ELSE "fulfilled"

PromiseAll(hook, subs) ==
    IF \E x \in DOMAIN subs : Rejects(hook, subs[x]) THEN "rejected"
    ELSE IF \E x \in DOMAIN subs : subs[x] \in {"pending", "none"} THEN "pending"
    ELSE "fulfilled"

\* The name of the error a rejected run catches.
ErrorName(subs) ==
    IF \E x \in DOMAIN subs : subs[x] = "aborted" THEN "AbortError" ELSE "Error"

\* catch (e) { if (e?.name === "AbortError") return; setError(...) }
\* (fetchPOIDetails and fetchNearbyAmenities abort nothing.)
CatchSetsErrorAlways(name) == TRUE

CatchSetsError(name) == name # "AbortError"

ErrorMessage(hook) ==
    IF hook \in EffectHooks THEN "Failed to load amenities"
    ELSE "Failed to fetch"

\* finally { setLoading(false) }; useAmenities: if (!aborted) setLoading(false)
FinallySetsLoading(hook, run) == hook # AM \/ ~run.aborted

\* The sub-requests whose features reach the delivered list.
Delivered(subs) == {x \in DOMAIN subs : subs[x] = "ok"}

\* useAmenities: if (aborted) return, before setData.
MayDeliver(hook, run) == hook # AM \/ ~run.aborted

\* The clean-up of an effect on its run: abort.abort() rejects every fetch
\* still pending; useAmenities also sets its aborted flag.
CancelNoAbort(hook, run) ==
    [run EXCEPT !.aborted = (hook = AM)]

Cancel(hook, run) ==
    [run EXCEPT !.aborted = (hook = AM),
                !.subs = [x \in DOMAIN run.subs |->
                             IF run.subs[x] = "pending" THEN "aborted" ELSE run.subs[x]]]

\* The failures, other than cancellation, among the fetches of a run.
FailsOf(subs) == {subs[x] : x \in DOMAIN subs} \cap FailedOutcomes

HookState(results, loading, error, last) ==
    [results |-> results, loading |-> loading, error |-> error, last |-> last]

\* hkLast: how a run ended ("delivered", "failed"), the failures among its
\* fetches, whether one of its fetches had succeeded, whether it put results
\* of its fetches into the state.
\* A run after one of its promises has settled: the continuation after
\* `await Promise.all', the catch block and the finally block.  st is the
\* hook's state before; tag says whether the run is the one started last
\* ("current") or an earlier one ("late").
Settle(hook, tag, run, st) ==
    LET pa == PromiseAll(hook, run.subs)
        loading == IF FinallySetsLoading(hook, run) THEN FALSE ELSE st.loading
    IN
    IF run.st # "active" \/ pa = "pending"
    THEN [run |-> run, st |-> st]
    ELSE IF pa = "rejected"
    THEN LET name == ErrorName(run.subs)
             err == IF CatchSetsError(name) THEN ErrorMessage(hook) ELSE st.error
         IN  [run |-> NoRun,
              st |-> HookState(st.results, loading, err,
                        IF name = "AbortError" THEN st.last
                        ELSE [how |-> "failed", fails |-> FailsOf(run.subs),
                              hadOk |-> Delivered(run.subs) # {}, gave |-> FALSE,
                              cancelled |-> st.last.cancelled])]
    ELSE IF MayDeliver(hook, run)
    THEN [run |-> NoRun,
          st |-> HookState(IF hook = POI THEN st.results
                           ELSE [tag |-> tag, from |-> Delivered(run.subs)],
                           loading, st.error,
                           [how |-> "delivered", fails |-> FailsOf(run.subs),
                            hadOk |-> Delivered(run.subs) # {},
                            gave |-> Delivered(run.subs) # {},
                            cancelled |-> st.last.cancelled])]
    ELSE [run |-> NoRun, st |-> HookState(st.results, loading, st.error, st.last)]

\* The effect of useSearchBoxAmenities / useAmenities runs again because a
\* dependency changed: the clean-up of the previous effect, the body of the
\* new one up to its first await, then the reactions of the promises the
\* clean-up rejected.
RunEffect(hook, tok, center, route, cats) ==
    LET starts == IF hook = SB THEN tok # "" ELSE center # NULL /\ tok # ""
        \* 1. clean-up: abort the run in flight
        cancelled == IF hkCur.st = "active" THEN Cancel(hook, hkCur) ELSE hkCur
        \* results fetched before this change are those of earlier inputs
        res0 == IF hkResults.tag = "none" THEN hkResults
                ELSE [hkResults EXCEPT !.tag = "earlier"]
        \* 2. the new effect: setLoading(true); setError(null); the fetches.
        \*    useSearchBoxAmenities with no centers: setResults([]);
        \*    setLoading(false); return.
        noCenters == hook = SB /\ CentersOf(route, center) = {}
        fresh == [st |-> "active", subs |-> FirstSubs(hook, cats, route, center),
                  aborted |-> FALSE]
        last0 == [NoLast EXCEPT !.cancelled = (hkCur.st = "active")]
        st0 == IF starts THEN HookState(res0, TRUE, NULL, last0)
               ELSE HookState(res0, hkLoading, hkError, last0)
        new == IF ~starts THEN [run |-> NoRun, st |-> st0]
               ELSE IF noCenters
               THEN [run |-> NoRun,
                     st |-> HookState([tag |-> "current", from |-> {}], FALSE, NULL,
                               [last0 EXCEPT !.how = "delivered"])]
               ELSE Settle(hook, "current", fresh, st0)
        \* 3. the rejected promises of the cancelled run are handled
        after == Settle(hook, "late", cancelled, new.st)
        \* a run started before the cancelled one may still be in flight
        older == Settle(hook, "late", hkOld, after.st)
    IN  /\ hkCur' = new.run
        /\ hkOld' = IF after.run.st = "active" THEN after.run ELSE older.run
        /\ hkResults' = older.st.results
        /\ hkLoading' = older.st.loading
        /\ hkError' = older.st.error
        /\ hkLast' = older.st.last

\* A prop of an effect hook changes (center, route, categories, token).
InputChange(tok, center, route, cats) ==
    /\ mounted \in EffectHooks
    /\ <<tok, center, route, cats>> # <<hkToken, hkCenter, hkRoute, hkCats>>
    /\ mounted = AM => (route = NULL /\ cats = {})
    /\ hkToken' = tok /\ hkCenter' = center /\ hkRoute' = route /\ hkCats' = cats
    /\ RunEffect(mounted, tok, center, route, cats)
    /\ UNCHANGED <<mounted, srvVars, geVars, seVars, quVars, fnVars, mpVars>>

\* useSearchBoxSupport: the probe of the Search Box API answers and
\* `support', a dependency of the effect, changes: the effect runs again
\* with the props it had.
SupportResolved ==
    /\ mounted = SB
    /\ hkToken # ""
    /\ RunEffect(mounted, hkToken, hkCenter, hkRoute, hkCats)
    /\ UNCHANGED <<mounted, srvVars, geVars, seVars, quVars, fnVars, mpVars, hkToken, hkCenter, hkRoute, hkCats>>

\* The next fetch of the loop of fetchNearbyAmenities.
NextInLoop(hook, subs) ==
    IF hook # NB \/ \E x \in DOMAIN subs : subs[x] = "pending" THEN subs
    ELSE LET left == {i \in 1..Len(amenityTypes) :
                        \E x \in DOMAIN subs : x[1] = amenityTypes[i] /\ subs[x] = "none"}
         IN  IF left = {} THEN subs
             ELSE LET i == CHOOSE k \in left : \A j \in left : k <= j
                  IN  [x \in DOMAIN subs |->
                          IF x[1] = amenityTypes[i] THEN "pending" ELSE subs[x]]

\* A fetch of the run started last ends with outcome o.
Respond(x, o) ==
    /\ mounted \in Hooks
    /\ o \in OutcomesOf(mounted)
    /\ hkCur.st = "active"
    /\ x \in DOMAIN hkCur.subs
    /\ hkCur.subs[x] = "pending"
    /\ LET subs == [hkCur.subs EXCEPT ![x] = o]
           run == [hkCur EXCEPT !.subs = NextInLoop(mounted, subs)]
           r == Settle(mounted, "current", run,
                       HookState(hkResults, hkLoading, hkError,
                                 [NoLast EXCEPT !.cancelled = hkLast.cancelled]))
       IN  /\ hkCur' = r.run
           /\ hkResults' = r.st.results
           /\ hkLoading' = r.st.loading
           /\ hkError' = r.st.error
           /\ hkLast' = r.st.last
    /\ UNCHANGED <<mounted, srvVars, geVars, seVars, quVars, fnVars, mpVars, hkToken, hkCenter, hkRoute, hkCats, hkOld>>

\* A fetch of a run started earlier, and still in flight, ends.
RespondOld(x, o) ==
    /\ mounted \in Hooks
    /\ o \in OutcomesOf(mounted)
    /\ hkOld.st = "active"
    /\ x \in DOMAIN hkOld.subs
    /\ hkOld.subs[x] = "pending"
    /\ LET run == [hkOld EXCEPT !.subs[x] = o]
           r == Settle(mounted, "late", run,
                       HookState(hkResults, hkLoading, hkError, NoLast))
       IN  /\ hkOld' = r.run
           /\ hkResults' = r.st.results
           /\ hkLoading' = r.st.loading
           /\ hkError' = r.st.error
           /\ hkLast' = r.st.last
    /\ UNCHANGED <<mounted, srvVars, geVars, seVars, quVars, fnVars, mpVars, hkToken, hkCenter, hkRoute, hkCats, hkCur>>

\* fetchNearbyAmenities(coordinates) / fetchPOIDetails(coordinates) is
\* called: the part of the call before its first await.
\* fetchNearbyAmenities: no token -> setError('Mapbox token is required').
\* (fetchNearbyAmenities is followed through one call at a time, and
\* fetchPOIDetails through two overlapping calls.)
Call(coords) ==
    /\ mounted \in CallHooks
    /\ hkOld.st = "none"
    /\ mounted = NB => (hkCur.st = "none" /\ hkResults.tag = "none")
    /\ hkCenter' = coords
    /\ IF mounted = NB /\ hkToken = ""
       THEN /\ hkError' = "Mapbox token is required"
            /\ hkLast' = NoLast
            /\ UNCHANGED <<hkCur, hkOld, hkLoading, hkResults>>
       ELSE /\ hkOld' = hkCur
            /\ hkCur' = [st |-> "active", subs |-> FirstSubs(mounted, {}, NULL, coords),
                         aborted |-> FALSE]
            /\ hkLoading' = TRUE
            /\ hkError' = NULL
            /\ hkLast' = NoLast
            /\ UNCHANGED hkResults
    /\ UNCHANGED <<mounted, srvVars, geVars, seVars, quVars, fnVars, mpVars, hkToken, hkRoute, hkCats>>

InitHooks ==
    /\ hkToken \in Tokens
    /\ hkCenter = NULL
    /\ hkRoute = NULL
    /\ hkCats = {}
    /\ hkCur = NoRun
    /\ hkOld = NoRun
    /\ hkResults = [tag |-> "none", from |-> {}]
    /\ hkLoading = FALSE
    /\ hkError = NULL
    /\ hkLast = NoLast

NextHooks ==
    \/ \E tok \in Tokens, center \in Points \cup {NULL}, route \in RouteValues,
          cats \in CatChoices : InputChange(tok, center, route, cats)
    \/ SupportResolved
    \/ \E x \in DOMAIN hkCur.subs, o \in {"ok"} \cup FailedOutcomes : Respond(x, o)
    \/ \E x \in DOMAIN hkOld.subs, o \in {"ok"} \cup FailedOutcomes : RespondOld(x, o)
    \/ \E coords \in Points : Call(coords)

(***************************************************************************)
(* GEOCODING EFFECTS: the debounced effect of SearchBar (deps [q, token])  *)
(* and of ValuationForm (deps [building, token, onPlaceSelect]).  Time is  *)
(* counted in steps of TickMs.                                             *)
(***************************************************************************)
SBAR == "SearchBar"
VF == "ValuationForm"
GeoComponents == {SBAR, VF}

\* The delays of the two setTimeout calls, in ms.
SearchBarDelay == 300
ValuationDelay == 1500
Delay(comp) == IF comp = SBAR THEN SearchBarDelay ELSE ValuationDelay
TickMs == SearchBarDelay \div 2

\* qv.length < 3 (SearchBar), q.length < 4 (ValuationForm)
SearchBarMinLength == 3
ValuationMinLength == 4
MinLength(comp) == IF comp = SBAR THEN SearchBarMinLength ELSE ValuationMinLength

\* The characters the user types, and the texts of the input.
Chars == {"a", " "}
Texts == UNION {[1..n -> Chars] : n \in 0..MaxLen}

\* String.prototype.trim
RECURSIVE TrimStart(_)
TrimStart(s) == IF s # <<>> /\ Head(s) = " " THEN TrimStart(Tail(s)) ELSE s
RECURSIVE TrimEnd(_)
TrimEnd(s) ==
    IF s # <<>> /\ s[Len(s)] = " " THEN TrimEnd(SubSeq(s, 1, Len(s) - 1)) ELSE s
Trim(s) == TrimEnd(TrimStart(s))

\* if (!qv || qv.length < 3 || !tk): no geocoding for this text
TooShort(comp, qv, tk) == qv = <<>> \/ Len(qv) < MinLength(comp) \/ tk = ""

geOthers == <<mounted, srvVars, hkVars, seVars, quVars, fnVars, mpVars>>

NoTimer == [left |-> -1, q |-> <<>>]
NoPlaces == [tag |-> "none", q |-> <<>>]
NoGeoLast == [how |-> "none", q |-> <<>>]

\* The effect body after its dependencies changed: the previous effect's
\* clean-up has cleared its timer.  SearchBar always arms a timer that
\* captures q; ValuationForm returns early for a short text or no token.
ArmTimer(comp, text, tk) ==
    IF comp = VF /\ TooShort(VF, Trim(text), tk) THEN NoTimer
    ELSE [left |-> Delay(comp), q |-> Trim(text)]

\* onChange -> setQ / setBuilding: the text in the input changes, the
\* component renders again and the effect re-runs.
SetText(text) ==
    /\ mounted \in GeoComponents
    /\ text \in Texts
    /\ text # geQ
    /\ geQ' = text
    /\ geTimer' = ArmTimer(mounted, text, geToken)
    /\ geSince' = 0
    /\ geCount' = 0
    /\ geLast' = NoGeoLast
    /\ UNCHANGED <<geToken, geFetches, gePlaces, geLatest, geOthers>>

\* The user types a character, or deletes the last one.
TypeChar(c) == Len(geQ) < MaxLen /\ SetText(Append(geQ, c))
Backspace == geQ # <<>> /\ SetText(SubSeq(geQ, 1, Len(geQ) - 1))

\* Index renders again (any state change of the page): handlePlaceSelect is
\* a new function, so the effect of ValuationForm, which lists
\* onPlaceSelect among its dependencies, re-runs.  SearchBar's effect
\* depends on [q, token] only.
Rerender(comp, timer, text, tk) ==
    IF comp = VF THEN ArmTimer(VF, text, tk) ELSE timer

ParentRerender ==
    /\ mounted = VF
    /\ geTimer' = Rerender(mounted, geTimer, geQ, geToken)
    /\ geTimer' # geTimer
    /\ geLast' = NoGeoLast
    /\ UNCHANGED <<geToken, geQ, geFetches, gePlaces, geSince, geCount, geLatest, geOthers>>

\* TickMs of time pass; a timer that is due fires first.
Tick ==
    /\ mounted \in GeoComponents
    /\ geTimer.left # 0
    /\ geSince < Delay(mounted) \/ geTimer # NoTimer
    /\ geTimer' = IF geTimer = NoTimer THEN NoTimer
                  ELSE [geTimer EXCEPT !.left = IF @ > TickMs THEN @ - TickMs ELSE 0]
    /\ geSince' = IF geSince + TickMs > Delay(mounted) THEN Delay(mounted)
                  ELSE geSince + TickMs
    /\ geLast' = NoGeoLast
    /\ UNCHANGED <<geToken, geQ, geFetches, gePlaces, geCount, geLatest, geOthers>>

\* The timer's callback runs.  SearchBar: a short text or no token ->
\* setPlaces([]); otherwise fetch(url).  No AbortController is involved.
TimerFires ==
    /\ mounted \in GeoComponents
    /\ geTimer.left = 0
    /\ geTimer' = NoTimer
    /\ IF TooShort(mounted, geTimer.q, geToken)
       THEN /\ gePlaces' = [tag |-> "empty", q |-> <<>>]
            /\ geLast' = NoGeoLast
            /\ UNCHANGED <<geFetches, geCount, geLatest>>
       ELSE /\ Len(geFetches) < MaxInFlight
            /\ geCount < MaxRequests
            /\ geFetches' = Append(geFetches, geTimer.q)
            /\ geCount' = geCount + 1
            /\ geLatest' = geTimer.q
            /\ geLast' = [how |-> "request", q |-> geTimer.q]
            /\ UNCHANGED gePlaces
    /\ UNCHANGED <<geToken, geQ, geSince, geOthers>>

\* What a geocoding request ends with: features, no feature, a rejection.
GeoOutcomes == {"features", "nofeatures", "fail"}

RemoveAt(seq, i) == SubSeq(seq, 1, i - 1) \o SubSeq(seq, i + 1, Len(seq))

\* The i-th request in flight ends.  SearchBar: setPlaces(features), or
\* setPlaces([]) in the catch block.  ValuationForm: onPlaceSelect(first
\* feature), upon which Index sets state and renders again.
GeoResponse(i, o) ==
    /\ mounted \in GeoComponents
    /\ i \in 1..Len(geFetches)
    /\ geFetches' = RemoveAt(geFetches, i)
    /\ geLast' = IF mounted = VF /\ o # "features" THEN NoGeoLast
                  ELSE [how |-> "response", q |-> geFetches[i]]
    /\ IF mounted = SBAR
       THEN /\ gePlaces' = IF o = "features" THEN [tag |-> "features", q |-> geFetches[i]]
                           ELSE [tag |-> "empty", q |-> geFetches[i]]
            /\ UNCHANGED geTimer
       ELSE IF o = "features"
            THEN /\ gePlaces' = [tag |-> "features", q |-> geFetches[i]]
                 /\ geTimer' = Rerender(VF, geTimer, geQ, geToken)
            ELSE UNCHANGED <<gePlaces, geTimer>>
    /\ UNCHANGED <<geToken, geQ, geSince, geCount, geLatest, geOthers>>

InitGeo ==
    /\ geToken \in Tokens
    /\ geQ = <<>>
    /\ geTimer = IF mounted = SBAR THEN ArmTimer(SBAR, <<>>, geToken) ELSE NoTimer
    /\ geFetches = <<>>
    /\ gePlaces = NoPlaces
    /\ geSince = 0
    /\ geCount = 0
    /\ geLatest = <<>>
    /\ geLast = NoGeoLast

NextGeo ==
    \/ \E c \in Chars : TypeChar(c)
    \/ Backspace
    \/ ParentRerender
    \/ Tick
    \/ TimerFires
    \/ \E i \in 1..MaxInFlight, o \in GeoOutcomes : GeoResponse(i, o)

(***************************************************************************)
(* SELECTION HANDLERS of Index: handleSelect, handlePOISelect, and the     *)
(* click on a 3d building of RealEstateMap, each with its lookup.          *)
(***************************************************************************)
SEL == "Index"
Items == {"A", "B"}
LookupOutcomes == {"feature", "nofeature", "fail"}

seOthers == <<mounted, srvVars, hkVars, geVars, quVars, fnVars, mpVars>>

NoSelection == [property |-> NULL, poi |-> NULL]
NotFresh == [details |-> FALSE, poi |-> FALSE]

\* handleSelect(property): setSelected, setFlyTo, then, with a token, the
\* reverse-geocoding fetch; the lookups in flight after the call.
HandleSelectLookups(lookups, p, tk) ==
    IF tk = "" THEN lookups ELSE Append(lookups, [kind |-> "details", of |-> p])

\* The user picks a property (search result or marker): handleSelect(p).
HandleSelect(p) ==
    /\ mounted = SEL
    /\ Len(seLookups) < MaxLookups
    /\ seSelected' = p
    /\ seLookups' = HandleSelectLookups(seLookups, p, seToken)
    /\ seLatest' = [seLatest EXCEPT !.property = p]
    /\ seFresh' = [seFresh EXCEPT !.details = FALSE]
    /\ UNCHANGED <<seToken, seDetails, sePOI, seOthers>>

\* The user clicks a 3d building: onSelect(tempPropertyPoint), which is
\* handleSelect, and the map's own reverse-geocoding fetch.
BuildingClick(b) ==
    /\ mounted = SEL
    /\ Len(seLookups) + 1 < MaxLookups
    /\ seSelected' = b
    /\ seLookups' = Append(HandleSelectLookups(seLookups, b, seToken),
                           [kind |-> "geocode", of |-> b])
    /\ seLatest' = [seLatest EXCEPT !.property = b]
    /\ seFresh' = [seFresh EXCEPT !.details = FALSE]
    /\ UNCHANGED <<seToken, seDetails, sePOI, seOthers>>

\* handlePOISelect(coordinates): await fetchPOIDetails(coordinates).
HandlePOISelect(c) ==
    /\ mounted = SEL
    /\ Len(seLookups) < MaxLookups
    /\ seLookups' = Append(seLookups, [kind |-> "poi", of |-> c])
    /\ seLatest' = [seLatest EXCEPT !.poi = c]
    /\ seFresh' = [seFresh EXCEPT !.poi = FALSE]
    /\ UNCHANGED <<seToken, seSelected, seDetails, sePOI, seOthers>>

\* Whether the continuation of a lookup writes its result to the state.
\* handleSelect: a feature, or the fallback of the catch block;
\* handlePOISelect: fetchPOIDetails returned details (null when it failed).
Writes(kind, o) ==
    CASE kind = "details" -> o \in {"feature", "fail"}
      [] kind = "poi" -> o \in {"feature", "nofeature"}
      [] kind = "geocode" -> TRUE

\* The i-th lookup in flight ends.  Nothing cancels a lookup and no
\* continuation looks at the current selection.  The map's lookup calls
\* onSelect(updatedPropertyPoint / fallbackPropertyPoint): handleSelect.
LookupDone(i, o) ==
    /\ mounted = SEL
    /\ i \in 1..Len(seLookups)
    /\ LET l == seLookups[i]
           rest == SubSeq(seLookups, 1, i - 1) \o SubSeq(seLookups, i + 1, Len(seLookups))
       IN  CASE l.kind = "details" ->
                  /\ seDetails' = IF Writes(l.kind, o) THEN l.of ELSE seDetails
                  /\ seFresh' = IF Writes(l.kind, o) /\ l.of = seLatest.property
                                THEN [seFresh EXCEPT !.details = TRUE] ELSE seFresh
                  /\ seLookups' = rest
                  /\ UNCHANGED <<seSelected, sePOI>>
             [] l.kind = "poi" ->
                  /\ sePOI' = IF Writes(l.kind, o) THEN l.of ELSE sePOI
                  /\ seFresh' = IF Writes(l.kind, o) /\ l.of = seLatest.poi
                                THEN [seFresh EXCEPT !.poi = TRUE] ELSE seFresh
                  /\ seLookups' = rest
                  /\ UNCHANGED <<seSelected, seDetails>>
             [] l.kind = "geocode" ->
                  /\ seSelected' = l.of
                  /\ seLookups' = HandleSelectLookups(rest, l.of, seToken)
                  /\ UNCHANGED <<seDetails, sePOI, seFresh>>
    /\ UNCHANGED <<seToken, seLatest, seOthers>>

InitSel ==
    /\ seToken \in Tokens
    /\ seSelected = NULL
    /\ seDetails = NULL
    /\ sePOI = NULL
    /\ seLookups = <<>>
    /\ seLatest = NoSelection
    /\ seFresh = NotFresh

NextSel ==
    \/ \E p \in Items : HandleSelect(p)
    \/ \E b \in Items : BuildingClick(b)
    \/ \E c \in Items : HandlePOISelect(c)
    \/ \E i \in 1..MaxLookups, o \in LookupOutcomes : LookupDone(i, o)

(***************************************************************************)
(* REACT-QUERY HOOKS: useGooglePlaces, useBuildingImages and               *)
(* useCommunityImages.  useQuery issues the query function when the key is *)
(* set and the query enabled, and again after a rejection while            *)
(* failureCount is below `retry'.                                          *)
(***************************************************************************)
GP == "useGooglePlaces"
BI == "useBuildingImages"
CI == "useCommunityImages"
QueryHooks == {GP, BI, CI}

quOthers == <<mounted, srvVars, hkVars, geVars, seVars, fnVars, mpVars>>

\* retry: 2 / retry: 2 / retry: 1
RetryOnce(hook) == 1

RetryOf(hook) ==
    CASE hook = GP -> 2
      [] hook = BI -> 2
      [] hook = CI -> 1

\* How the request of a query function ends.
QueryOutcomes == {"ok", "http", "network"}

\* Whether the query function rejects.  useGooglePlaces throws on !ok and
\* lets a rejection of fetch through; imageService.getBuildingImages and
\* getCommunityImages catch every failure and return stock photos.
QueryFnRejects(hook, o) == hook = GP /\ o # "ok"

\* enabled: enabled && !!coordinates (&& lat !== 0 && lng !== 0)
Enabled(key) == key # NULL

\* The props change and with them the query key.
QueryKeyChange(key) ==
    /\ mounted \in QueryHooks
    /\ key # quKey
    /\ quKey' = key
    /\ quStatus' = IF Enabled(key) THEN "fetching" ELSE "idle"
    /\ quFailureCount' = 0
    /\ quFetches' = IF Enabled(key) THEN 1 ELSE 0
    /\ UNCHANGED quOthers

\* The user asks for the data again: refetch().
Refetch ==
    /\ mounted \in QueryHooks
    /\ quStatus \in {"success", "error"}
    /\ quStatus' = "fetching"
    /\ quFailureCount' = 0
    /\ quFetches' = 1
    /\ UNCHANGED <<quKey, quOthers>>

\* The request of the query function ends: the query succeeds, is retried
\* (the request is issued again), or fails for good.
QueryFnSettles(o) ==
    /\ mounted \in QueryHooks
    /\ quStatus = "fetching"
    /\ IF ~QueryFnRejects(mounted, o)
       THEN /\ quStatus' = "success"
            /\ UNCHANGED <<quFailureCount, quFetches>>
       ELSE /\ quFailureCount' = quFailureCount + 1
            /\ IF quFailureCount < RetryOf(mounted)
               THEN /\ quStatus' = "fetching"
                    /\ quFetches' = quFetches + 1
               ELSE /\ quStatus' = "error"
                    /\ UNCHANGED quFetches
    /\ UNCHANGED <<quKey, quOthers>>

InitQuery ==
    /\ quKey = NULL
    /\ quStatus = "idle"
    /\ quFailureCount = 0
    /\ quFetches = 0

NextQuery ==
    \/ \E key \in Points \cup {NULL} : QueryKeyChange(key)
    \/ Refetch
    \/ \E o \in QueryOutcomes : QueryFnSettles(o)

(***************************************************************************)
(* FUNCTIONS FOLLOWED ON THEIR OWN: a behaviour draws the arguments of one *)
(* call in its first state and the call returns in its only step.          *)
(***************************************************************************)
fnOthers == <<mounted, srvVars, hkVars, geVars, seVars, quVars, mpVars>>
NotReturned == [returned |-> FALSE]

(***************************************************************************)
(* GET /api/places/nearby after its fetch: from the upstream answer to the *)
(* response of the route.                                                  *)
(***************************************************************************)
PLACES == "/api/places/nearby"

\* The `types' of an upstream result.
TypeSets == {{"building"}, {"premise", "point_of_interest"}, {"establishment"},
             {"route"}, {"locality", "political"}, {}}

\* One entry of data.results; hasTypes = FALSE: the entry has no `types'.
Places == [types : TypeSets, hasTypes : {TRUE}] \cup [types : {{}}, hasTypes : {FALSE}]

\* data.results: a list of entries, each known by its position (place_id).
ResultLists == UNION {[1..n -> Places] : n \in 0..MaxResults}

\* The upstream answer: response.ok, and data with or without `results'.
UpstreamData ==
    [ok : BOOLEAN, hasResults : {TRUE}, results : ResultLists]
        \cup [ok : BOOLEAN, hasResults : {FALSE}, results : {<<>>}]

\* ['building', 'establishment', 'premise', 'point_of_interest']
RelevantTypes == {"building", "establishment", "premise", "point_of_interest"}

\* The filter with no test of the types.
KeepsAll(place) == TRUE

\* place.types.some(type => [...].includes(type))
Keeps(place) == place.types \cap RelevantTypes # {}

\* data.results?.filter(...).map(...) || []: the place ids of the entries
\* that pass the filter, in their order.
RECURSIVE FilterFrom(_, _)
FilterFrom(results, i) ==
    IF i > Len(results) THEN <<>>
    ELSE IF Keeps(results[i])
         THEN <<[placeId |-> i, types |-> results[i].types]>> \o FilterFrom(results, i + 1)
         ELSE FilterFrom(results, i + 1)

\* The handler after `const data = await response.json()'.
NearbyAnswer(data) ==
    IF ~data.ok
    THEN [returned |-> TRUE, status |-> 403, error |-> "Places search failed", buildings |-> <<>>]
    ELSE IF data.hasResults /\ \E i \in 1..Len(data.results) : ~data.results[i].hasTypes
    THEN \* place.types.some throws a TypeError: the catch block
         [returned |-> TRUE, status |-> 500, error |-> "Failed to search nearby places",
          buildings |-> <<>>]
    ELSE [returned |-> TRUE, status |-> 200, error |-> "none",
          buildings |-> IF data.hasResults THEN FilterFrom(data.results, 1) ELSE <<>>]

NearbyReturns ==
    /\ mounted = PLACES
    /\ fnResult = NotReturned
    /\ fnResult' = NearbyAnswer(fnArgs)
    /\ UNCHANGED <<fnArgs, fnOthers>>

(***************************************************************************)
(* circlePolygon (pages/Index.tsx).  A double is carried as s * m * 2^e    *)
(* with an 11-bit mantissa m that approximates its value; a coordinate is  *)
(* the center's coordinate, in units of 2^-20 degree, plus the offset the  *)
(* addition left: the addition of a 53-bit double absorbs an offset below  *)
(* half an ulp of the coordinate.                                          *)
(***************************************************************************)
CIRCLE == "circlePolygon"

DoubleBits == 53

Zero == [s |-> 0, m |-> 0, e |-> 0]

RECURSIVE Norm(_, _, _)
Norm(s, m, e) ==
    IF m = 0 \/ s = 0 THEN Zero
    ELSE IF m >= 2048 THEN Norm(s, m \div 2, e + 1)
    ELSE IF m < 1024 THEN Norm(s, m * 2, e - 1)
    ELSE [s |-> s, m |-> m, e |-> e]

Abs(n) == IF n < 0 THEN -n ELSE n
Sign(n) == IF n < 0 THEN -1 ELSE IF n = 0 THEN 0 ELSE 1

FromInt(n) == Norm(Sign(n), Abs(n), 0)
\* a coordinate given in units of 2^-20 degree
FromUnits(u) == Norm(Sign(u), Abs(u), -20)

Mul(a, b) == Norm(a.s * b.s, a.m * b.m, a.e + b.e)
Div(a, b) == Norm(a.s * b.s, (a.m * 2048) \div b.m, a.e - b.e - 11)

\* The binary exponent of a nonzero double: 2^Exp2(a) <= |a| < 2^(Exp2(a)+1).
Exp2(a) == a.e + 10

RECURSIVE IsPowerOfTwo(_)
IsPowerOfTwo(n) ==
    IF n <= 1 THEN n = 1 ELSE n % 2 = 0 /\ IsPowerOfTwo(n \div 2)

\* Math.PI
PI == [s |-> 1, m |-> 1608, e |-> -9]

\* const R = 6378137
R == FromInt(6378137)

\* Math.sin((k / 64) * 2 * Math.PI) for k = 0..64; the last entry is
\* Math.sin(2 * Math.PI) = -2.4492935982947064e-16.
SinTable ==
    <<[s |-> 0, m |-> 0, e |-> 0], [s |-> 1, m |-> 1605, e |-> -14],
      [s |-> 1, m |-> 1598, e |-> -13], [s |-> 1, m |-> 1189, e |-> -12],
      [s |-> 1, m |-> 1567, e |-> -12], [s |-> 1, m |-> 1930, e |-> -12],
      [s |-> 1, m |-> 1137, e |-> -11], [s |-> 1, m |-> 1299, e |-> -11],
      [s |-> 1, m |-> 1448, e |-> -11], [s |-> 1, m |-> 1583, e |-> -11],
      [s |-> 1, m |-> 1702, e |-> -11], [s |-> 1, m |-> 1806, e |-> -11],
      [s |-> 1, m |-> 1892, e |-> -11], [s |-> 1, m |-> 1959, e |-> -11],
      [s |-> 1, m |-> 2008, e |-> -11], [s |-> 1, m |-> 2038, e |-> -11],
      [s |-> 1, m |-> 1024, e |-> -10], [s |-> 1, m |-> 2038, e |-> -11],
      [s |-> 1, m |-> 2008, e |-> -11], [s |-> 1, m |-> 1959, e |-> -11],
      [s |-> 1, m |-> 1892, e |-> -11], [s |-> 1, m |-> 1806, e |-> -11],
      [s |-> 1, m |-> 1702, e |-> -11], [s |-> 1, m |-> 1583, e |-> -11],
      [s |-> 1, m |-> 1448, e |-> -11], [s |-> 1, m |-> 1299, e |-> -11],
      [s |-> 1, m |-> 1137, e |-> -11], [s |-> 1, m |-> 1930, e |-> -12],
      [s |-> 1, m |-> 1567, e |-> -12], [s |-> 1, m |-> 1189, e |-> -12],
      [s |-> 1, m |-> 1598, e |-> -13], [s |-> 1, m |-> 1605, e |-> -14],
      [s |-> 1, m |-> 1129, e |-> -63], [s |-> -1, m |-> 1605, e |-> -14],
      [s |-> -1, m |-> 1598, e |-> -13], [s |-> -1, m |-> 1189, e |-> -12],
      [s |-> -1, m |-> 1567, e |-> -12], [s |-> -1, m |-> 1930, e |-> -12],
      [s |-> -1, m |-> 1137, e |-> -11], [s |-> -1, m |-> 1299, e |-> -11],
      [s |-> -1, m |-> 1448, e |-> -11], [s |-> -1, m |-> 1583, e |-> -11],
      [s |-> -1, m |-> 1702, e |-> -11], [s |-> -1, m |-> 1806, e |-> -11],
      [s |-> -1, m |-> 1892, e |-> -11], [s |-> -1, m |-> 1959, e |-> -11],
      [s |-> -1, m |-> 2008, e |-> -11], [s |-> -1, m |-> 2038, e |-> -11],
      [s |-> -1, m |-> 1024, e |-> -10], [s |-> -1, m |-> 2038, e |-> -11],
      [s |-> -1, m |-> 2008, e |-> -11], [s |-> -1, m |-> 1959, e |-> -11],
      [s |-> -1, m |-> 1892, e |-> -11], [s |-> -1, m |-> 1806, e |-> -11],
      [s |-> -1, m |-> 1702, e |-> -11], [s |-> -1, m |-> 1583, e |-> -11],
      [s |-> -1, m |-> 1448, e |-> -11], [s |-> -1, m |-> 1299, e |-> -11],
      [s |-> -1, m |-> 1137, e |-> -11], [s |-> -1, m |-> 1930, e |-> -12],
      [s |-> -1, m |-> 1567, e |-> -12], [s |-> -1, m |-> 1189, e |-> -12],
      [s |-> -1, m |-> 1598, e |-> -13], [s |-> -1, m |-> 1605, e |-> -14],
      [s |-> -1, m |-> 1129, e |-> -62]>>

\* Math.cos((k / 64) * 2 * Math.PI) for k = 0..64.
CosTable ==
    <<[s |-> 1, m |-> 1024, e |-> -10], [s |-> 1, m |-> 2038, e |-> -11],
      [s |-> 1, m |-> 2008, e |-> -11], [s |-> 1, m |-> 1959, e |-> -11],
      [s |-> 1, m |-> 1892, e |-> -11], [s |-> 1, m |-> 1806, e |-> -11],
      [s |-> 1, m |-> 1702, e |-> -11], [s |-> 1, m |-> 1583, e |-> -11],
      [s |-> 1, m |-> 1448, e |-> -11], [s |-> 1, m |-> 1299, e |-> -11],
      [s |-> 1, m |-> 1137, e |-> -11], [s |-> 1, m |-> 1930, e |-> -12],
      [s |-> 1, m |-> 1567, e |-> -12], [s |-> 1, m |-> 1189, e |-> -12],
      [s |-> 1, m |-> 1598, e |-> -13], [s |-> 1, m |-> 1605, e |-> -14],
      [s |-> 1, m |-> 1129, e |-> -64], [s |-> -1, m |-> 1605, e |-> -14],
      [s |-> -1, m |-> 1598, e |-> -13], [s |-> -1, m |-> 1189, e |-> -12],
      [s |-> -1, m |-> 1567, e |-> -12], [s |-> -1, m |-> 1930, e |-> -12],
      [s |-> -1, m |-> 1137, e |-> -11], [s |-> -1, m |-> 1299, e |-> -11],
      [s |-> -1, m |-> 1448, e |-> -11], [s |-> -1, m |-> 1583, e |-> -11],
      [s |-> -1, m |-> 1702, e |-> -11], [s |-> -1, m |-> 1806, e |-> -11],
      [s |-> -1, m |-> 1892, e |-> -11], [s |-> -1, m |-> 1959, e |-> -11],
      [s |-> -1, m |-> 2008, e |-> -11], [s |-> -1, m |-> 2038, e |-> -11],
      [s |-> -1, m |-> 1024, e |-> -10], [s |-> -1, m |-> 2038, e |-> -11],
      [s |-> -1, m |-> 2008, e |-> -11], [s |-> -1, m |-> 1959, e |-> -11],
      [s |-> -1, m |-> 1892, e |-> -11], [s |-> -1, m |-> 1806, e |-> -11],
      [s |-> -1, m |-> 1702, e |-> -11], [s |-> -1, m |-> 1583, e |-> -11],
      [s |-> -1, m |-> 1448, e |-> -11], [s |-> -1, m |-> 1299, e |-> -11],
      [s |-> -1, m |-> 1137, e |-> -11], [s |-> -1, m |-> 1930, e |-> -12],
      [s |-> -1, m |-> 1567, e |-> -12], [s |-> -1, m |-> 1189, e |-> -12],
      [s |-> -1, m |-> 1598, e |-> -13], [s |-> -1, m |-> 1605, e |-> -14],
      [s |-> -1, m |-> 1694, e |-> -63], [s |-> 1, m |-> 1605, e |-> -14],
      [s |-> 1, m |-> 1598, e |-> -13], [s |-> 1, m |-> 1189, e |-> -12],
      [s |-> 1, m |-> 1567, e |-> -12], [s |-> 1, m |-> 1930, e |-> -12],
      [s |-> 1, m |-> 1137, e |-> -11], [s |-> 1, m |-> 1299, e |-> -11],
      [s |-> 1, m |-> 1448, e |-> -11], [s |-> 1, m |-> 1583, e |-> -11],
      [s |-> 1, m |-> 1702, e |-> -11], [s |-> 1, m |-> 1806, e |-> -11],
      [s |-> 1, m |-> 1892, e |-> -11], [s |-> 1, m |-> 1959, e |-> -11],
      [s |-> 1, m |-> 2008, e |-> -11], [s |-> 1, m |-> 2038, e |-> -11],
      [s |-> 1, m |-> 1024, e |-> -10]>>

\* (i / points) * 2 * Math.PI, in 64ths of a turn
Angle(i, points) == (i * 64) \div points

Sin(angle) == SinTable[angle + 1]
Cos(angle) == CosTable[angle + 1]

\* The latitudes of the centers, in units of 2^-20 degree, with
\* Math.cos((lat * Math.PI) / 180) of each.
Lats == {0, 10486, 1048576, 26424115, -26424115}
CosLat(lat) ==
    CASE lat = 0 -> [s |-> 1, m |-> 1024, e |-> -10]
      [] lat = 10486 -> [s |-> 1, m |-> 2047, e |-> -11]
      [] lat = 1048576 -> [s |-> 1, m |-> 2047, e |-> -11]
      [] lat \in {26424115, -26424115} -> [s |-> 1, m |-> 1853, e |-> -11]
Lngs == {0, 57954795}
Radii == {1200, 1500, 100000}
PointCounts == {1, 2, 4, 64}

\* Whether x + d, computed in doubles, is x again.
Absorbed(x, d) ==
    /\ x # 0
    /\ LET towardZero == Sign(x) # d.s
           ulpExp == Exp2(FromUnits(x)) - (DoubleBits - 1)
           halfStep == IF towardZero /\ IsPowerOfTwo(Abs(x)) THEN ulpExp - 2
                       ELSE ulpExp - 1
       IN  Exp2(d) < halfStep

\* x + d: the coordinate x with the offset the addition kept.
Add(x, d) ==
    IF d = Zero \/ Absorbed(x, d) THEN [base |-> x, off |-> Zero]
    ELSE [base |-> x, off |-> d]

\* One pass of the loop: the coordinate pushed for i.
Coord(lng, lat, radiusMeters, points, i) ==
    LET angle == Angle(i, points)
        dx == Div(Mul(FromInt(radiusMeters), Cos(angle)), Mul(R, CosLat(lat)))
        dy == Div(Mul(FromInt(radiusMeters), Sin(angle)), R)
        newLng == Add(lng, Div(Mul(dx, FromInt(180)), PI))
        newLat == Add(lat, Div(Mul(dy, FromInt(180)), PI))
    IN  <<newLng, newLat>>

\* for (let i = 0; i <= points; i++) coords.push(...)
circlePolygon(center, radiusMeters, points) ==
    [i \in 1..(points + 1) |->
        Coord(center[1], center[2], radiusMeters, points, i - 1)]

CircleArgs ==
    [center : Lngs \X Lats, radiusMeters : Radii, points : PointCounts]

CircleReturns ==
    /\ mounted = CIRCLE
    /\ fnResult = NotReturned
    /\ fnResult' = [returned |-> TRUE,
                    coords |-> circlePolygon(fnArgs.center, fnArgs.radiusMeters,
                                             fnArgs.points)]
    /\ UNCHANGED <<fnArgs, fnOthers>>

(***************************************************************************)
(* The amenity classifiers: categorizeAmenity (useNearbyAmenities.ts) and  *)
(* getCategory (usePOIData.ts).  A string is its sequence of characters.   *)
(***************************************************************************)
CATEGORIZE == "categorizeAmenity"
GETCATEGORY == "getCategory"

\* The characters of the strings the classifiers and the places use.
Text(w) ==
    CASE w = "restaurant" -> <<"r", "e", "s", "t", "a", "u", "r", "a", "n", "t">>
      [] w = "cafe" -> <<"c", "a", "f", "e">>
      [] w = "food" -> <<"f", "o", "o", "d">>
      [] w = "dining" -> <<"d", "i", "n", "i", "n", "g">>
      [] w = "mall" -> <<"m", "a", "l", "l">>
      [] w = "shop" -> <<"s", "h", "o", "p">>
      [] w = "market" -> <<"m", "a", "r", "k", "e", "t">>
      [] w = "store" -> <<"s", "t", "o", "r", "e">>
      [] w = "hospital" -> <<"h", "o", "s", "p", "i", "t", "a", "l">>
      [] w = "clinic" -> <<"c", "l", "i", "n", "i", "c">>
      [] w = "pharmacy" -> <<"p", "h", "a", "r", "m", "a", "c", "y">>
      [] w = "medical" -> <<"m", "e", "d", "i", "c", "a", "l">>
      [] w = "school" -> <<"s", "c", "h", "o", "o", "l">>
      [] w = "university" -> <<"u", "n", "i", "v", "e", "r", "s", "i", "t", "y">>
      [] w = "college" -> <<"c", "o", "l", "l", "e", "g", "e">>
      [] w = "education" -> <<"e", "d", "u", "c", "a", "t", "i", "o", "n">>
      [] w = "metro" -> <<"m", "e", "t", "r", "o">>
      [] w = "station" -> <<"s", "t", "a", "t", "i", "o", "n">>
      [] w = "transport" -> <<"t", "r", "a", "n", "s", "p", "o", "r", "t">>
      [] w = "bus" -> <<"b", "u", "s">>
      [] w = "taxi" -> <<"t", "a", "x", "i">>
      [] w = "bank" -> <<"b", "a", "n", "k">>
      [] w = "atm" -> <<"a", "t", "m">>
      [] w = "financial" -> <<"f", "i", "n", "a", "n", "c", "i", "a", "l">>
      [] w = "cinema" -> <<"c", "i", "n", "e", "m", "a">>
      [] w = "theater" -> <<"t", "h", "e", "a", "t", "e", "r">>
      [] w = "park" -> <<"p", "a", "r", "k">>
      [] w = "gym" -> <<"g", "y", "m">>
      [] w = "spa" -> <<"s", "p", "a">>
      [] w = "hotel" -> <<"h", "o", "t", "e", "l">>
      [] w = "shopping" -> <<"s", "h", "o", "p", "p", "i", "n", "g">>
      [] w = "gas station" -> <<"g", "a", "s", " ", "s", "t", "a", "t", "i", "o", "n">>
      [] w = "fuel" -> <<"f", "u", "e", "l">>
      [] w = "mosque" -> <<"m", "o", "s", "q", "u", "e">>
      [] w = "church" -> <<"c", "h", "u", "r", "c", "h">>
      [] w = "temple" -> <<"t", "e", "m", "p", "l", "e">>
      [] w = "tower" -> <<"t", "o", "w", "e", "r">>
      [] w = "building" -> <<"b", "u", "i", "l", "d", "i", "n", "g">>
      [] w = "healthcare" -> <<"h", "e", "a", "l", "t", "h", "c", "a", "r", "e">>
      [] w = "finance" -> <<"f", "i", "n", "a", "n", "c", "e">>
      [] w = "entertainment" -> <<"e", "n", "t", "e", "r", "t", "a", "i", "n", "m", "e", "n", "t">>
      [] w = "other" -> <<"o", "t", "h", "e", "r">>
      [] w = "Restaurant" -> <<"R", "e", "s", "t", "a", "u", "r", "a", "n", "t">>
      [] w = "Hotel" -> <<"H", "o", "t", "e", "l">>
      [] w = "Shopping" -> <<"S", "h", "o", "p", "p", "i", "n", "g">>
      [] w = "Healthcare" -> <<"H", "e", "a", "l", "t", "h", "c", "a", "r", "e">>
      [] w = "Education" -> <<"E", "d", "u", "c", "a", "t", "i", "o", "n">>
      [] w = "Bank" -> <<"B", "a", "n", "k">>
      [] w = "Gas Station" -> <<"G", "a", "s", " ", "S", "t", "a", "t", "i", "o", "n">>
      [] w = "Religious" -> <<"R", "e", "l", "i", "g", "i", "o", "u", "s">>
      [] w = "Park" -> <<"P", "a", "r", "k">>
      [] w = "Building" -> <<"B", "u", "i", "l", "d", "i", "n", "g">>
      [] w = "Point of Interest" -> <<"P", "o", "i", "n", "t", " ", "o", "f", " ", "I", "n", "t", "e", "r", "e", "s", "t">>
      [] w = "Dubai Mall" -> <<"D", "u", "b", "a", "i", " ", "M", "a", "l", "l">>
      [] w = "City Hospital" -> <<"C", "i", "t", "y", " ", "H", "o", "s", "p", "i", "t", "a", "l">>
      [] w = "Emirates NBD Bank" -> <<"E", "m", "i", "r", "a", "t", "e", "s", " ", "N", "B", "D", " ", "B", "a", "n", "k">>
      [] w = "Burj Khalifa Tower" -> <<"B", "u", "r", "j", " ", "K", "h", "a", "l", "i", "f", "a", " ", "T", "o", "w", "e", "r">>
      [] w = "Al Safa Park" -> <<"A", "l", " ", "S", "a", "f", "a", " ", "P", "a", "r", "k">>
      [] w = "Spinneys" -> <<"S", "p", "i", "n", "n", "e", "y", "s">>
      [] w = "" -> <<>>

\* String.prototype.toLowerCase, one character
Lower(c) ==
    CASE c = "A" -> "a"
      [] c = "B" -> "b"
      [] c = "C" -> "c"
      [] c = "D" -> "d"
      [] c = "E" -> "e"
      [] c = "F" -> "f"
      [] c = "G" -> "g"
      [] c = "H" -> "h"
      [] c = "I" -> "i"
      [] c = "J" -> "j"
      [] c = "K" -> "k"
      [] c = "L" -> "l"
      [] c = "M" -> "m"
      [] c = "N" -> "n"
      [] c = "O" -> "o"
      [] c = "P" -> "p"
      [] c = "Q" -> "q"
      [] c = "R" -> "r"
      [] c = "S" -> "s"
      [] c = "T" -> "t"
      [] c = "U" -> "u"
      [] c = "V" -> "v"
      [] c = "W" -> "w"
      [] c = "X" -> "x"
      [] c = "Y" -> "y"
      [] c = "Z" -> "z"
      [] OTHER -> c

toLowerCase(str) == [i \in 1..Len(str) |-> Lower(str[i])]

\* String.prototype.includes
includes(str, sub) ==
    \E i \in 0..(Len(str) - Len(sub)) : SubSeq(str, i + 1, i + Len(sub)) = sub

IncludesAny(name, words) == \E w \in words : includes(name, Text(w))

categorizeAmenity(placeName) ==
    LET name == toLowerCase(placeName)
    IN  IF IncludesAny(name, {"restaurant", "cafe", "food", "dining"}) THEN "restaurant"
        ELSE IF IncludesAny(name, {"mall", "shop", "market", "store"}) THEN "shopping"
        ELSE IF IncludesAny(name, {"hospital", "clinic", "pharmacy", "medical"})
        THEN "healthcare"
        ELSE IF IncludesAny(name, {"school", "university", "college", "education"})
        THEN "education"
        ELSE IF IncludesAny(name, {"metro", "station", "transport", "bus", "taxi"})
        THEN "transport"
        ELSE IF IncludesAny(name, {"bank", "atm", "financial"}) THEN "finance"
        ELSE IF IncludesAny(name, {"cinema", "theater", "park", "gym", "spa"})
        THEN "entertainment"
        ELSE "other"

\* getCategory(poi): poi.types is a list of type names, poi.name a string.
getCategory(poi) ==
    IF Len(poi.types) > 0
    THEN LET primaryType == poi.types[1]
         IN  CASE primaryType \in {"restaurant", "food", "meal_takeaway"} -> "Restaurant"
               [] primaryType \in {"lodging", "hotel"} -> "Hotel"
               [] primaryType \in {"shopping_mall", "store"} -> "Shopping"
               [] primaryType \in {"hospital", "clinic", "pharmacy"} -> "Healthcare"
               [] primaryType \in {"school", "university"} -> "Education"
               [] primaryType \in {"bank", "atm"} -> "Bank"
               [] primaryType = "gas_station" -> "Gas Station"
               [] primaryType \in {"mosque", "church", "place_of_worship"} -> "Religious"
               [] primaryType = "park" -> "Park"
               [] primaryType \in {"establishment", "point_of_interest"} -> "Building"
               [] OTHER -> "Point of Interest"
    ELSE LET placeName == toLowerCase(poi.name)
         IN  IF IncludesAny(placeName, {"restaurant", "cafe", "food"}) THEN "Restaurant"
             ELSE IF IncludesAny(placeName, {"hotel"}) THEN "Hotel"
             ELSE IF IncludesAny(placeName, {"shopping", "mall"}) THEN "Shopping"
             ELSE IF IncludesAny(placeName, {"hospital", "clinic"}) THEN "Healthcare"
             ELSE IF IncludesAny(placeName, {"school", "university"}) THEN "Education"
             ELSE IF IncludesAny(placeName, {"bank"}) THEN "Bank"
             ELSE IF IncludesAny(placeName, {"gas station", "fuel"}) THEN "Gas Station"
             ELSE IF IncludesAny(placeName, {"mosque", "church", "temple"}) THEN "Religious"
             ELSE IF IncludesAny(placeName, {"park"}) THEN "Park"
             ELSE IF IncludesAny(placeName, {"tower", "building"}) THEN "Building"
             ELSE "Point of Interest"

\* The places classified: names of places, and the types Google reports.
PlaceNames == {"Dubai Mall", "City Hospital", "Emirates NBD Bank", "Burj Khalifa Tower",
               "Al Safa Park", "Spinneys", "restaurant", "education", "Hotel"}
PrimaryTypes == {"restaurant", "lodging", "store", "pharmacy", "school", "atm",
                 "gas_station", "mosque", "park", "establishment", "route"}
POIs == [types : {<<>>}, name : {Text(n) : n \in PlaceNames}]
            \cup [types : {<<t>> : t \in PrimaryTypes}, name : {Text("")}]

\* The classifier of a component applied to an input.
Classify(f, input) ==
    IF f = CATEGORIZE THEN categorizeAmenity(input) ELSE getCategory(input)

\* The inputs that carry a label back into the classifier: the place name
\* of categorizeAmenity; the name or the primary type of a poi.
AsInput(f, label) ==
    IF f = CATEGORIZE THEN {Text(label)}
    ELSE {[types |-> <<>>, name |-> Text(label)], [types |-> <<label>>, name |-> Text("")]}

Classifies ==
    /\ mounted \in {CATEGORIZE, GETCATEGORY}
    /\ fnResult = NotReturned
    /\ fnResult' = [returned |-> TRUE, label |-> Classify(mounted, fnArgs), again |-> "none"]
    /\ UNCHANGED <<fnArgs, fnOthers>>

\* The label produced is classified again.
Reclassifies ==
    /\ mounted \in {CATEGORIZE, GETCATEGORY}
    /\ fnResult # NotReturned
    /\ fnResult.again = "none"
    /\ \E input \in AsInput(mounted, fnResult.label) :
          fnResult' = [fnResult EXCEPT !.again = Classify(mounted, input)]
    /\ UNCHANGED <<fnArgs, fnOthers>>

FunctionNames == {PLACES, CIRCLE, CATEGORIZE, GETCATEGORY}

ArgsOf(f) ==
    CASE f = PLACES -> UpstreamData
      [] f = CIRCLE -> CircleArgs
      [] f = CATEGORIZE -> {Text(n) : n \in PlaceNames}
      [] f = GETCATEGORY -> POIs

InitFunctions ==
    /\ fnArgs \in IF mounted \in FunctionNames THEN ArgsOf(mounted) ELSE {<<>>}
    /\ fnResult = NotReturned

NextFunctions ==
    \/ NearbyReturns
    \/ CircleReturns
    \/ Classifies
    \/ Reclassifies

(***************************************************************************)
(* The tool toggles of the page: client/src/pages/Index.tsx, and the page  *)
(* kept in SafeRealEstateMap.tsx whose switches set the state directly.    *)
(* A handler reads the state values of the render that created it and      *)
(* queues its updates; a render makes the queued values the ones the next  *)
(* handlers read.                                                          *)
(***************************************************************************)

pgOthers == <<mounted, srvVars, hkVars, geVars, seVars, quVars, fnVars, mrVars, b3Vars, bsVars, flVars,
              isVars, dcVars>>

IDX == "pages/Index"
SAFE == "SafeRealEstateMap/Index"
Pages == {IDX, SAFE}

MaxCalls == 2
MaxTimers == 2

Snapshot ==
    [directionsEnabled |-> directionsEnabled, isochroneEnabled |-> isochroneEnabled]

\* React renders the page with the queued state.
Render ==
    /\ mounted \in Pages
    /\ rendered # Snapshot \/ handled > 0
    /\ rendered' = Snapshot
    /\ handled' = 0
    /\ UNCHANGED <<directionsEnabled, isochroneEnabled, routeTimers, pgOthers>>

\* Whether handleRouteTo / handleDirectionsToggle also switch isochrones off.
DisablesIso(page) == page = IDX /\ rendered.isochroneEnabled

\* Whether handleIsochroneToggle also switches directions off.
DisablesDirections(page) == page = IDX /\ rendered.directionsEnabled

handleRouteTo ==
    /\ mounted \in Pages
    /\ handled < MaxCalls
    /\ handled' = handled + 1
    /\ IF ~rendered.directionsEnabled
       THEN /\ routeTimers < MaxTimers
            /\ directionsEnabled' = TRUE
            /\ isochroneEnabled' = IF DisablesIso(mounted) THEN FALSE ELSE isochroneEnabled
            /\ routeTimers' = routeTimers + 1
       ELSE UNCHANGED <<directionsEnabled, isochroneEnabled, routeTimers>>
    /\ UNCHANGED <<rendered, pgOthers>>

handleDirectionsToggle(enabled) ==
    /\ mounted \in Pages
    /\ handled < MaxCalls
    /\ handled' = handled + 1
    /\ directionsEnabled' = enabled
    /\ isochroneEnabled' = IF enabled /\ DisablesIso(mounted) THEN FALSE ELSE isochroneEnabled
    /\ UNCHANGED <<rendered, routeTimers, pgOthers>>

handleIsochroneToggle(enabled) ==
    /\ mounted \in Pages
    /\ handled < MaxCalls
    /\ handled' = handled + 1
    /\ isochroneEnabled' = enabled
    /\ directionsEnabled' = IF enabled /\ DisablesDirections(mounted) THEN FALSE
                            ELSE directionsEnabled
    /\ UNCHANGED <<rendered, routeTimers, pgOthers>>

\* The 600 ms timer of handleRouteTo calls mapRef.current?.routeTo.
RouteTimerFires ==
    /\ mounted \in Pages
    /\ routeTimers > 0
    /\ routeTimers' = routeTimers - 1
    /\ UNCHANGED <<directionsEnabled, isochroneEnabled, rendered, handled, pgOthers>>

InitPage ==
    /\ directionsEnabled = FALSE
    /\ isochroneEnabled = FALSE
    /\ rendered = [directionsEnabled |-> FALSE, isochroneEnabled |-> FALSE]
    /\ routeTimers = 0
    /\ handled = 0

NextPage ==
    \/ Render
    \/ handleRouteTo
    \/ \E enabled \in BOOLEAN : handleDirectionsToggle(enabled)
    \/ \E enabled \in BOOLEAN : handleIsochroneToggle(enabled)
    \/ RouteTimerFires

(***************************************************************************)
(* The Mapbox requests of RealEstateMap: the map is created by the init    *)
(* effect when a token is found, and its click handlers and effects send   *)
(* requests to the Mapbox APIs.                                            *)
(***************************************************************************)

mrOthers == <<mounted, srvVars, hkVars, geVars, seVars, quVars, fnVars, pgVars, b3Vars, bsVars, flVars,
              isVars, dcVars>>

MAPREQ == "RealEstateMap.requests"

MapTokens == {"", "pk.prop"}
StoredTokens == {"", "pk.stored"}

\* token || localStorage.getItem('MAPBOX_PUBLIC_TOKEN') || ''
AccessToken(token, stored) == IF token # "" THEN token ELSE stored

\* The token of the reverse-geocoding request of a building click.
ClickToken(token, stored) == token

Request(api, tok) ==
    [api |-> api, token |-> tok, prop |-> mrToken, stored |-> mrStored]

\* The token prop changes: the init effect is cleaned up (map.remove()) and
\* runs again; it creates a map if it finds a token.
TokenPropChange(tok) ==
    /\ mounted = MAPREQ
    /\ tok # mrToken
    /\ mrToken' = tok
    /\ mrMap' = (AccessToken(tok, mrStored) # "")
    /\ UNCHANGED <<mrStored, mrSent, mrOthers>>

\* localStorage.setItem('MAPBOX_PUBLIC_TOKEN', t) (saveToken, the preload
\* effect of the page); no effect of the map depends on it.
StorageSet(t) ==
    /\ mounted = MAPREQ
    /\ t # ""
    /\ mrStored # t
    /\ mrStored' = t
    /\ UNCHANGED <<mrToken, mrMap, mrSent, mrOthers>>

\* A click on the 3d-buildings layer: reverse geocoding of the centroid.
BuildingClickRequest ==
    /\ mounted = MAPREQ
    /\ mrMap
    /\ mrSent' = mrSent \cup {Request("geocoding", ClickToken(mrToken, mrStored))}
    /\ UNCHANGED <<mrToken, mrStored, mrMap, mrOthers>>

\* The isochrone effect with isochrone.enabled, on a loaded map.
IsochroneRequest ==
    /\ mounted = MAPREQ
    /\ mrMap
    /\ mrSent' = mrSent \cup {Request("isochrone", AccessToken(mrToken, mrStored))}
    /\ UNCHANGED <<mrToken, mrStored, mrMap, mrOthers>>

\* routeTo and the click handler of the directions fallback.
DirectionsRequest ==
    /\ mounted = MAPREQ
    /\ mrMap
    /\ mrSent' = mrSent \cup {Request("directions", AccessToken(mrToken, mrStored))}
    /\ UNCHANGED <<mrToken, mrStored, mrMap, mrOthers>>

InitMapRequests ==
    /\ mrToken \in (IF mounted = MAPREQ THEN MapTokens ELSE {""})
    /\ mrStored \in (IF mounted = MAPREQ THEN StoredTokens ELSE {""})
    /\ mrMap = (AccessToken(mrToken, mrStored) # "")
    /\ mrSent = {}

NextMapRequests ==
    \/ \E tok \in MapTokens : TokenPropChange(tok)
    \/ \E t \in StoredTokens : StorageSet(t)
    \/ BuildingClickRequest
    \/ IsochroneRequest
    \/ DirectionsRequest

(***************************************************************************)
(* The 3d-buildings layer of RealEstateMap.  A change of props is followed *)
(* through the effects it triggers; what stays pending afterwards is the   *)
(* import of the directions control, the Directions requests of routeTo    *)
(* and the loading of a style.                                             *)
(***************************************************************************)

b3Others == <<mounted, srvVars, hkVars, geVars, seVars, quVars, fnVars, pgVars, mrVars, bsVars, flVars,
              isVars, dcVars>>

MAP3D == "RealEstateMap.3d-buildings"

MaxRoutes == 1

Toggles(iso, dir) == [iso |-> iso, dir |-> dir]

\* isochrone?.enabled || directionsEnabled ? 'none' : 'visible'
VisibilityFor(iso, dir) == IF iso \/ dir THEN "none" ELSE "visible"

\* if (map.getLayer('3d-buildings')) map.setLayoutProperty(..., v)
SetIfPresent(layer, v) == IF layer = "absent" THEN layer ELSE v

\* The effect "Ensure 3D buildings are visible unless ...".
VisibilityEffect(layer, loaded, iso, dir) ==
    IF ~loaded THEN layer ELSE SetIfPresent(layer, VisibilityFor(iso, dir))

\* The synchronous part of the directions effect.
DirectionsEffect(layer, iso, dir) ==
    IF dir THEN SetIfPresent(layer, "none")
    ELSE IF ~iso THEN SetIfPresent(layer, "visible") ELSE layer

\* The style.load handler, which sees the props of the render that created
\* the map.
StyleLoadLayer(closure) == VisibilityFor(closure.iso, closure.dir)

\* routeTo: with the directions control it hides the layer; without it, it
\* sends a Directions request (hasCtl = FALSE).
RouteToLayer(hasCtl, layer) == IF hasCtl THEN SetIfPresent(layer, "none") ELSE layer
RouteToFetches(hasCtl, n) == IF hasCtl THEN n ELSE n + 1

\* isochrone or directionsEnabled changes: the clean-up of the directions
\* effect, then the visibility effect and the directions effect.
PropsChange(iso, dir) ==
    /\ mounted = MAP3D
    /\ <<iso, dir>> # <<b3Iso, b3Dir>>
    /\ b3Iso' = iso /\ b3Dir' = dir
    /\ b3Ctl' = FALSE
    /\ b3Import' = (dir \/ b3Import)
    /\ b3Layer' = DirectionsEffect(VisibilityEffect(b3Layer, b3StyleLoaded, iso, dir),
                                   iso, dir)
    /\ UNCHANGED <<b3Closure, b3StyleLoaded, b3Fetches, b3Retry, b3Others>>

\* The import() of the directions effect resolves: map.addControl(ctl).
DirectionsLoaded ==
    /\ mounted = MAP3D
    /\ b3Import
    /\ b3Import' = FALSE
    /\ b3Ctl' = TRUE
    /\ UNCHANGED <<b3Iso, b3Dir, b3Closure, b3StyleLoaded, b3Layer, b3Fetches, b3Retry,
                   b3Others>>

\* mapStyle changes: map.setStyle(mapStyle) drops the layers of the style.
StyleChange ==
    /\ mounted = MAP3D
    /\ b3StyleLoaded
    /\ b3StyleLoaded' = FALSE
    /\ b3Layer' = "absent"
    /\ UNCHANGED <<b3Iso, b3Dir, b3Closure, b3Ctl, b3Import, b3Fetches, b3Retry, b3Others>>

\* 'style.load': the handler of the init effect adds the layer again, then
\* a routeTo that waited for the style runs.
StyleLoad ==
    /\ mounted = MAP3D
    /\ ~b3StyleLoaded
    /\ b3StyleLoaded' = TRUE
    /\ b3Retry' = FALSE
    /\ IF b3Retry
       THEN /\ b3Layer' = RouteToLayer(b3Ctl, StyleLoadLayer(b3Closure))
            /\ b3Fetches' = RouteToFetches(b3Ctl, b3Fetches)
       ELSE /\ b3Layer' = StyleLoadLayer(b3Closure)
            /\ UNCHANGED b3Fetches
    /\ UNCHANGED <<b3Iso, b3Dir, b3Closure, b3Ctl, b3Import, b3Others>>

\* mapRef.current.routeTo(dest, profile)
routeTo ==
    /\ mounted = MAP3D
    /\ b3Fetches < MaxRoutes
    /\ IF b3Ctl
       THEN /\ b3Layer' = RouteToLayer(TRUE, b3Layer)
            /\ UNCHANGED <<b3Fetches, b3Retry>>
       ELSE IF ~b3StyleLoaded
       THEN /\ b3Retry' = TRUE
            /\ UNCHANGED <<b3Layer, b3Fetches>>
       ELSE /\ b3Fetches' = RouteToFetches(FALSE, b3Fetches)
            /\ UNCHANGED <<b3Layer, b3Retry>>
    /\ UNCHANGED <<b3Iso, b3Dir, b3Closure, b3StyleLoaded, b3Ctl, b3Import, b3Others>>

\* The Directions request of routeTo answers, with or without a route.
RouteResponse(hasGeometry) ==
    /\ mounted = MAP3D
    /\ b3Fetches > 0
    /\ b3Fetches' = b3Fetches - 1
    /\ b3Layer' = IF hasGeometry THEN SetIfPresent(b3Layer, "none") ELSE b3Layer
    /\ UNCHANGED <<b3Iso, b3Dir, b3Closure, b3StyleLoaded, b3Ctl, b3Import, b3Retry,
                   b3Others>>

\* The map is created with the props of the first render; its style loads.
InitMap3D ==
    /\ b3Iso \in (IF mounted = MAP3D THEN BOOLEAN ELSE {FALSE})
    /\ b3Dir \in (IF mounted = MAP3D THEN BOOLEAN ELSE {FALSE})
    /\ b3Closure = Toggles(b3Iso, b3Dir)
    /\ b3StyleLoaded = FALSE
    /\ b3Layer = "absent"
    /\ b3Ctl = FALSE
    /\ b3Import = b3Dir
    /\ b3Fetches = 0
    /\ b3Retry = FALSE

NextMap3D ==
    \/ \E iso, dir \in BOOLEAN : PropsChange(iso, dir)
    \/ DirectionsLoaded
    \/ StyleChange
    \/ StyleLoad
    \/ routeTo
    \/ \E hasGeometry \in BOOLEAN : RouteResponse(hasGeometry)

(***************************************************************************)
(* Building selection: the click handlers of the 3d-buildings and          *)
(* 3d-landmarks layers of RealEstateMap, and the click handler of          *)
(* SafeRealEstateMap.                                                      *)
(***************************************************************************)

bsOthers == <<mounted, srvVars, hkVars, geVars, seVars, quVars, fnVars, pgVars, mrVars,
              b3Vars, flVars,
              isVars, dcVars>>

RSEL == "RealEstateMap.selection"
SSEL == "SafeRealEstateMap.selection"
SelectionMaps == {RSEL, SSEL}

\* The ids of the buildings on the map.
Buildings == {"b1", "b2", "b3"}

\* The feature a click picks among those under the pointer: a building id
\* (or none: id null), with a polygon geometry or another one; NoFeature
\* when nothing is under the pointer.
NoFeature == [id |-> NULL, polygon |-> FALSE, hit |-> FALSE]
Features == [id : Buildings \cup {NULL}, polygon : BOOLEAN, hit : {TRUE}] \cup {NoFeature}

NoClick == [layer |-> "none", feat |-> NoFeature, cleared |-> {}]

\* selectedBuildingIds.current.forEach(pid => setFeatureState(..., {selected:
\* false})); selectedBuildingIds.current.clear()
KeepPrevious(selected, ids) == selected
ClearPrevious(selected, ids) == selected \ ids

\* if (fid != null) { add(fid); setFeatureState(..., { selected: true }) }
Selects(feat) == feat.hit /\ feat.id # NULL

\* The marker source is added for a selected building with a polygon.
Marks(feat) == Selects(feat) /\ feat.polygon

\* A click on the 3d-buildings or the 3d-landmarks layer of RealEstateMap.
MapClick(layer, feat) ==
    /\ mounted = RSEL
    /\ featureSelected' = ClearPrevious(featureSelected, selectedBuildingIds)
                             \cup (IF Selects(feat) THEN {feat.id} ELSE {})
    /\ selectedBuildingIds' = IF Selects(feat) THEN {feat.id} ELSE {}
    \* the previous marker is removed, then the new one added
    /\ buildingMarkers' = IF Marks(feat) THEN {feat.id} ELSE {}
    /\ lastClick' = [layer |-> layer, feat |-> feat, cleared |-> selectedBuildingIds]
    /\ UNCHANGED bsOthers

\* A click on the 3d-buildings layer of SafeRealEstateMap: no marker source.
SafeMapClick(feat) ==
    /\ mounted = SSEL
    /\ featureSelected' = ClearPrevious(featureSelected, selectedBuildingIds)
                             \cup (IF Selects(feat) THEN {feat.id} ELSE {})
    /\ selectedBuildingIds' = IF Selects(feat) THEN {feat.id} ELSE {}
    /\ lastClick' = [layer |-> "3d-buildings", feat |-> feat,
                     cleared |-> selectedBuildingIds]
    /\ UNCHANGED <<buildingMarkers, bsOthers>>

\* The token changes: the init effect removes the map and creates a new
\* one; the ref of the component keeps its ids.
MapRecreated ==
    /\ mounted \in SelectionMaps
    /\ featureSelected # {} \/ buildingMarkers # {}
    /\ featureSelected' = {}
    /\ buildingMarkers' = {}
    /\ UNCHANGED <<selectedBuildingIds, lastClick, bsOthers>>

InitSelectionMap ==
    /\ selectedBuildingIds = {}
    /\ featureSelected = {}
    /\ buildingMarkers = {}
    /\ lastClick = NoClick

NextSelectionMap ==
    \/ \E layer \in {"3d-buildings", "3d-landmarks"}, feat \in Features :
          MapClick(layer, feat)
    \/ \E feat \in Features : SafeMapClick(feat)
    \/ MapRecreated

(***************************************************************************)
(* The flights of the map: the flyTo effect of RealEstateMap, with the     *)
(* flights of the selected-property effect and of routeTo.                 *)
(***************************************************************************)

flOthers == <<mounted, srvVars, hkVars, geVars, seVars, quVars, fnVars, pgVars, mrVars,
              b3Vars, bsVars,
              isVars, dcVars>>

FLY == "RealEstateMap.flyTo"

MaxTimestamp == 3
\* flyTo.timestamp || 0: 0 stands for a request without a timestamp.
Timestamps == 0..MaxTimestamp

\* flyTo is null or undefined
NoFlyTo == -1

NoRequest == [fresh |-> FALSE, reached |-> FALSE, threw |-> FALSE, busy |-> FALSE]

NoFlight == [kind |-> "none", timestamp |-> 0, previous |-> 0, inProgress |-> FALSE]

\* if (currentTimestamp <= lastFlyToTimestamp.current) return;
IsNewOrSame(currentTimestamp, last) == ~(currentTimestamp < last)
IsNew(currentTimestamp, last) == ~(currentTimestamp <= last)

\* const timestamp = Date.now(): a fresh timestamp is later than that of
\* every earlier request.
IsFresh(ts) == ts > flyTo /\ ts > lastFlyToTimestamp /\ ts > 0

\* The page sets a new flyTo request and the effect runs; map.flyTo may
\* throw, which the catch block answers by resetting the flag.
\* withSelected: the request comes from handleSelect, which also sets
\* `selected', so that the selected-property effect flies to the same
\* coordinates; handlePlaceSelect sets `selected' to null.
FlyToRequest(ts, throws, withSelected) ==
    /\ mounted = FLY
    /\ flyTo' = ts
    /\ flyReq' = [fresh |-> IsFresh(ts),
                  reached |-> withSelected \/ (~flyToInProgress /\ IsNew(ts, lastFlyToTimestamp)
                                                /\ ~throws),
                  threw |-> ~flyToInProgress /\ IsNew(ts, lastFlyToTimestamp) /\ throws,
                  busy |-> flyToInProgress]
    /\ IF flyToInProgress \/ ~IsNew(ts, lastFlyToTimestamp)
       THEN /\ lastFlight' = [kind |-> "skipped", timestamp |-> ts,
                              previous |-> lastFlyToTimestamp,
                              inProgress |-> flyToInProgress]
            /\ UNCHANGED <<lastFlyToTimestamp, flyToInProgress, flyTimer, executed>>
       ELSE /\ lastFlyToTimestamp' = ts
            /\ flyToInProgress' = ~throws
            /\ flyTimer' = IF throws THEN flyTimer ELSE TRUE
            /\ executed' = [executed EXCEPT ![ts] = IF @ < 2 THEN @ + 1 ELSE @]
            /\ lastFlight' = [kind |-> "request", timestamp |-> ts,
                              previous |-> lastFlyToTimestamp,
                              inProgress |-> flyToInProgress]
    /\ UNCHANGED flOthers

\* setTimeout(() => { flyToInProgress.current = false }, 3000)
FlyTimerFires ==
    /\ mounted = FLY
    /\ flyTimer
    /\ flyTimer' = FALSE
    /\ flyToInProgress' = FALSE
    /\ lastFlight' = NoFlight
    /\ UNCHANGED <<flyTo, lastFlyToTimestamp, executed, flyReq, flOthers>>

\* `selected' changes to a property (kind "selected"), or routeTo is called
\* (kind "route"): map.flyTo, whatever the flag says.
OtherFlight(kind) ==
    /\ mounted = FLY
    /\ lastFlight' = [kind |-> kind, timestamp |-> 0, previous |-> lastFlyToTimestamp,
                      inProgress |-> flyToInProgress]
    /\ UNCHANGED <<flyTo, lastFlyToTimestamp, flyToInProgress, flyTimer, executed,
                   flyReq, flOthers>>

InitFlights ==
    /\ flyTo = NoFlyTo
    /\ lastFlyToTimestamp = 0
    /\ flyToInProgress = FALSE
    /\ flyTimer = FALSE
    /\ executed = [ts \in Timestamps |-> 0]
    /\ lastFlight = NoFlight
    /\ flyReq = NoRequest

NextFlights ==
    \/ \E ts \in Timestamps, throws, withSelected \in BOOLEAN :
           FlyToRequest(ts, throws, withSelected)
    \/ FlyTimerFires
    \/ \E kind \in {"selected", "route"} : OtherFlight(kind)

(***************************************************************************)
(* The isochrone effect of RealEstateMap, in its two versions: the one of  *)
(* src/components/map (ISO_SRC), which does nothing while the style is     *)
(* loading and has no clean-up, and the later one of client/ (ISO_CLIENT), *)
(* which waits for 'style.load' and removes the layers in its clean-up.    *)
(* Neither cancels its request.  The token is taken as present.            *)
(***************************************************************************)

isOthers == <<mounted, srvVars, hkVars, geVars, seVars, quVars, fnVars, pgVars, mrVars,
              b3Vars, bsVars, flVars, dcVars>>

ISO_SRC == "src/RealEstateMap.isochrone"
ISO_CLIENT == "client/RealEstateMap.isochrone"
IsochroneMaps == {ISO_SRC, ISO_CLIENT}

MaxIsoFetches == 2

NoIsoFetches == [cur |-> 0, stale |-> 0]

\* The requests of earlier effects stay in flight when the effect runs again.
Outdated(f) == [cur |-> 0, stale |-> f.cur + f.stale]

\* .then((geo) => { ... map.addSource('isochrones', ...) ... }): the
\* response handler looks at the features and, in client/, at the style; it
\* does not look at isochrone.enabled.  \* (In src/, map.addSource throws while the style
\* is loading, and the catch swallows it.)
ResponseShows(hasFeatures, loaded) == hasFeatures /\ loaded

\* A dependency of the effect changes (enabled, profile, minutes, selected,
\* token): the clean-up of the previous effect, then the effect.
IsochroneDepsChange(enabled) ==
    /\ mounted \in IsochroneMaps
    /\ isEnabled' = enabled
    /\ UNCHANGED <<isStyleLoaded, isOthers>>
    /\ LET \* return () => { cleanupIsochrones() }, of an enabled effect
           cleaned == IF mounted = ISO_CLIENT /\ isEnabled THEN FALSE ELSE isShown
       IN  IF mounted = ISO_SRC /\ ~isStyleLoaded
           THEN \* if (!map || !map.isStyleLoaded()) return;
                /\ isFetches' = Outdated(isFetches)
                /\ isRemoved' = (isRemoved /\ ~enabled)
                /\ UNCHANGED <<isShown, isWaiting>>
           ELSE IF ~enabled
           THEN /\ isShown' = FALSE
                /\ isRemoved' = TRUE
                /\ isFetches' = Outdated(isFetches)
                /\ UNCHANGED isWaiting
           ELSE IF ~isStyleLoaded
           THEN \* map.once('style.load', addIsochrones)
                /\ isWaiting' = TRUE
                /\ isShown' = cleaned
                /\ isRemoved' = FALSE
                /\ isFetches' = Outdated(isFetches)
           ELSE /\ isFetches.cur + isFetches.stale < MaxIsoFetches
                /\ isFetches' = [Outdated(isFetches) EXCEPT !.cur = 1]
                /\ isShown' = cleaned
                /\ isRemoved' = FALSE
                /\ UNCHANGED isWaiting

\* An Isochrone request answers, with or without features.
IsochroneResponse(which, hasFeatures) ==
    /\ mounted \in IsochroneMaps
    /\ isFetches[which] > 0
    /\ isFetches' = [isFetches EXCEPT ![which] = @ - 1]
    /\ isShown' = (isShown \/ ResponseShows(hasFeatures, isStyleLoaded))
    /\ UNCHANGED <<isEnabled, isStyleLoaded, isWaiting, isRemoved, isOthers>>

\* mapStyle changes: map.setStyle(mapStyle) drops the sources and layers.
IsoStyleChange ==
    /\ mounted \in IsochroneMaps
    /\ isStyleLoaded
    /\ isStyleLoaded' = FALSE
    /\ isShown' = FALSE
    /\ UNCHANGED <<isEnabled, isWaiting, isFetches, isRemoved, isOthers>>

\* 'style.load': an addIsochrones that waited for it sends its request.
IsoStyleLoad ==
    /\ mounted \in IsochroneMaps
    /\ ~isStyleLoaded
    /\ isWaiting => isFetches.cur + isFetches.stale < MaxIsoFetches
    /\ isStyleLoaded' = TRUE
    /\ isWaiting' = FALSE
    /\ isFetches' = IF isWaiting
                    THEN [isFetches EXCEPT ![IF isEnabled THEN "cur" ELSE "stale"] = @ + 1]
                    ELSE isFetches
    /\ UNCHANGED <<isEnabled, isShown, isRemoved, isOthers>>

\* The map is created; its style is loading when the effects first run.
InitIsochrone ==
    /\ isEnabled \in (IF mounted \in IsochroneMaps THEN BOOLEAN ELSE {FALSE})
    /\ isStyleLoaded = FALSE
    /\ isWaiting = (mounted = ISO_CLIENT /\ isEnabled)
    /\ isFetches = NoIsoFetches
    /\ isShown = FALSE
    /\ isRemoved = (mounted = ISO_CLIENT /\ ~isEnabled)

NextIsochrone ==
    \/ \E enabled \in BOOLEAN : IsochroneDepsChange(enabled)
    \/ \E which \in {"cur", "stale"}, hasFeatures \in BOOLEAN :
           IsochroneResponse(which, hasFeatures)
    \/ IsoStyleChange
    \/ IsoStyleLoad

(***************************************************************************)
(* The directions effect of RealEstateMap (deps: directionsEnabled,        *)
(* selected, token, isochrone?.enabled).  Its body is an async function    *)
(* that awaits the import of the directions control; the clean-up cancels  *)
(* nothing.  The style is taken as loaded.                                 *)
(***************************************************************************)

dcOthers == <<mounted, srvVars, hkVars, geVars, seVars, quVars, fnVars, pgVars, mrVars,
              b3Vars, bsVars, flVars, isVars>>

DIRS == "RealEstateMap.directions"

MaxImports == 2
MaxDirFetches == 2
\* the controls and handlers followed on the map
MaxControls == 2
MaxHandlers == 2

\* if (directionsCtlRef.current) { map.removeControl(...); ref = null }
DetachedControls(attached, ref) == IF ref THEN attached - 1 ELSE attached

\* removeFallback: if (routeClickHandlerRef.current) { map.off('click', ...) }
RemainingHandlers(handlers, ref) == IF ref THEN handlers - 1 ELSE handlers

\* A dependency of the effect changes: the clean-up of the previous effect,
\* then the effect up to its await (enabled) or its whole else branch.
DirectionsDepsChange(enabled) ==
    /\ mounted = DIRS
    /\ enabled => dcImports < MaxImports
    /\ dcEnabled' = enabled
    /\ dcAttached' = DetachedControls(dcAttached, dcCtlRef)
    /\ dcCtlRef' = FALSE
    /\ dcHandlers' = RemainingHandlers(dcHandlers, dcHandlerRef)
    /\ dcHandlerRef' = FALSE
    /\ dcRouteLine' = FALSE
    /\ dcImports' = IF enabled THEN dcImports + 1 ELSE dcImports
    /\ UNCHANGED <<dcRouteFetches, dcOthers>>

\* An import() settles: map.addControl(ctl); directionsCtlRef.current = ctl,
\* or, in the catch block, the fallback click handler is registered.
ImportSettles(ok) ==
    /\ mounted = DIRS
    /\ dcImports > 0
    /\ IF ok THEN dcAttached < MaxControls ELSE dcHandlers < MaxHandlers
    /\ dcImports' = dcImports - 1
    /\ IF ok
       THEN /\ dcAttached' = dcAttached + 1
            /\ dcCtlRef' = TRUE
            /\ UNCHANGED <<dcHandlers, dcHandlerRef>>
       ELSE /\ dcHandlers' = dcHandlers + 1
            /\ dcHandlerRef' = TRUE
            /\ UNCHANGED <<dcAttached, dcCtlRef>>
    /\ UNCHANGED <<dcEnabled, dcRouteLine, dcRouteFetches, dcOthers>>

\* A click on the map: every registered fallback handler calls fetchRoute.
FallbackClick ==
    /\ mounted = DIRS
    /\ dcHandlers > 0
    /\ dcRouteFetches + dcHandlers <= MaxDirFetches
    /\ dcRouteFetches' = dcRouteFetches + dcHandlers
    /\ UNCHANGED <<dcEnabled, dcImports, dcAttached, dcCtlRef, dcHandlers, dcHandlerRef,
                   dcRouteLine, dcOthers>>

\* fetchRoute: if (!geom) return; ensureSource(); setData(...)
FallbackRouteResponse(hasGeometry) ==
    /\ mounted = DIRS
    /\ dcRouteFetches > 0
    /\ dcRouteFetches' = dcRouteFetches - 1
    /\ dcRouteLine' = (dcRouteLine \/ hasGeometry)
    /\ UNCHANGED <<dcEnabled, dcImports, dcAttached, dcCtlRef, dcHandlers, dcHandlerRef,
                   dcOthers>>

InitDirections ==
    /\ dcEnabled \in (IF mounted = DIRS THEN BOOLEAN ELSE {FALSE})
    /\ dcImports = (IF dcEnabled THEN 1 ELSE 0)
    /\ dcAttached = 0
    /\ dcCtlRef = FALSE
    /\ dcHandlers = 0
    /\ dcHandlerRef = FALSE
    /\ dcRouteLine = FALSE
    /\ dcRouteFetches = 0

NextDirections ==
    \/ \E enabled \in BOOLEAN : DirectionsDepsChange(enabled)
    \/ \E ok \in BOOLEAN : ImportSettles(ok)
    \/ FallbackClick
    \/ \E hasGeometry \in BOOLEAN : FallbackRouteResponse(hasGeometry)

(***************************************************************************)
(* Claims about the server.                                                *)
(***************************************************************************)

Answered(s) == reqs[s].phase = "done"

C2_NoOutboundWithoutKey ==
    ~HasKey(apiKey) => outbound = {}

ImageRoutes == {"/api/images/streetview", "/api/images/satellite"}

\* C11: with a key, lat and lng, an answered request to the streetview or
\* satellite route is either the image (status 200, image/jpeg resp.
\* image/png, the bytes of the upstream body), exactly when the upstream call
\* succeeded, or a JSON error object with a 4xx or 5xx status.
C11_ImageOrJsonError ==
    \A s \in Slots :
        (Answered(s) /\ reqs[s].route \in ImageRoutes /\ HasKey(apiKey)
           /\ reqs[s].lat # "" /\ reqs[s].lng # "") =>
            LET r == reqs[s].resp
                image == /\ r.status = 200 /\ r.body = "bytes" /\ r.error = "none"
                         /\ r.ctype = IF reqs[s].route = "/api/images/streetview"
                                      THEN "image/jpeg" ELSE "image/png"
                jsonError == /\ r.status \in 400..599 /\ r.body = "error"
                             /\ r.error # "none"
            IN  /\ image \/ jsonError
                /\ image <=> reqs[s].upstream = "200"

\* C11 witness: with a key, one request for a satellite image has been
\* answered with the image and one for a Street View image with the JSON
\* error of an upstream 404.
C11_Witness ==
    /\ HasKey(apiKey)
    /\ \E s \in Slots : /\ Answered(s) /\ reqs[s].route = "/api/images/satellite"
                        /\ reqs[s].upstream = "200" /\ reqs[s].resp.ctype = "image/png"
    /\ \E s \in Slots : /\ Answered(s) /\ reqs[s].route = "/api/images/streetview"
                        /\ reqs[s].upstream = "404" /\ reqs[s].resp.status = 404

(***************************************************************************)
(* Claims about the client data hooks.                                     *)
(***************************************************************************)

\* The fetch failures that make the promise of a sub-request of
\* useSearchBoxAmenities / useAmenities reject.
RejectingFailures == {"network", "http_text"}

\* C3: last request wins in useSearchBoxAmenities and useAmenities: the
\* request replaced by an input change is no longer in flight, the results
\* in the state were never written by a request issued before the latest
\* one, and once the latest request has delivered they are its results.
C3_LastRequestWins ==
    mounted \in EffectHooks =>
        /\ hkOld.st = "none"
        /\ hkResults.tag # "late"
        /\ hkLast.how = "delivered" => hkResults.tag = "current"

\* C3 witness: an input change cancelled a request in flight, and the
\* request issued for the new inputs has delivered its results.
C3_Witness ==
    /\ mounted \in EffectHooks
    /\ hkLast.cancelled /\ hkLast.how = "delivered"
    /\ hkResults.tag = "current" /\ hkResults.from # {}

\* C7: a run whose only failure is the AbortError of its own cancellation
\* does not set the error state: after an input change cancelled the run in
\* flight, error is null until a later run fails otherwise.
C7_AbortSetsNoError ==
    (mounted \in EffectHooks /\ hkLast.cancelled /\ hkLast.how # "failed") =>
        hkError = NULL

\* C7 witness: a run in flight has just been cancelled by an input change
\* that starts no new run, and error is null.
C7_Witness ==
    /\ mounted \in EffectHooks
    /\ hkLast.cancelled /\ hkLast.how = "none" /\ hkCur.st = "none"
    /\ hkError = NULL

\* C8 (as stated): in every data hook a fetch that failed for a reason other
\* than cancellation leaves a non-null error once the call has finished.
C8_FailureSetsError ==
    (hkLast.how # "none" /\ hkLast.fails # {}) => hkError # NULL

\* C8 (amended): when the call has finished, error is non-null in
\* usePOIData after any failed fetch, and in useSearchBoxAmenities and
\* useAmenities after a fetch that rejected (a network rejection, or a body
\* that is no JSON); it is null in these two hooks when the only failures
\* are non-2xx answers with a JSON body, and in useNearbyAmenities after any
\* failed fetch.
C8_RejectionSetsError ==
    hkLast.how # "none" =>
        /\ mounted = POI => (hkLast.fails # {} => hkError # NULL)
        /\ mounted \in EffectHooks =>
               (hkLast.fails \cap RejectingFailures # {} <=> hkError # NULL)
        /\ mounted = NB => hkError = NULL

\* C8 witness: usePOIData has finished a call whose fetch answered non-2xx,
\* and holds an error.
C8_Witness ==
    /\ mounted = POI
    /\ hkLast.how = "failed" /\ "http_json" \in hkLast.fails
    /\ hkError # NULL

\* C10 (as stated): when at least one sub-request of an operation failed,
\* the operation does not deliver the results of those that succeeded.
C10_NoPartialDelivery ==
    (hkLast.how # "none" /\ hkLast.fails # {} /\ hkLast.hadOk) => ~hkLast.gave

\* C10 (amended): in useSearchBoxAmenities and useAmenities a run with a
\* sub-request that rejected (network rejection, body that is no JSON)
\* fails as a whole and delivers nothing, the results in the state staying
\* those of earlier inputs; a run whose only failures are non-2xx answers
\* with a JSON body, and every call of fetchNearbyAmenities, delivers the
\* results of the sub-requests that succeeded.
C10_RejectionDeliversNothing ==
    hkLast.how # "none" =>
        /\ (mounted \in EffectHooks /\ hkLast.fails \cap RejectingFailures # {}) =>
               (hkLast.how = "failed" /\ ~hkLast.gave /\ hkResults.tag # "current")
        /\ (mounted \in EffectHooks /\ hkLast.fails \cap RejectingFailures = {}) =>
               (hkLast.how = "delivered" /\ hkLast.gave = hkLast.hadOk
                /\ hkResults.tag = "current")
        /\ mounted = NB =>
               (hkLast.how = "delivered" /\ hkLast.gave = hkLast.hadOk
                /\ (hkResults.from # {} <=> hkLast.hadOk))

\* C10 witness: a run of an effect hook failed on a network rejection after
\* another of its sub-requests had succeeded, and delivered nothing.
C10_Witness ==
    /\ mounted \in EffectHooks
    /\ hkLast.how = "failed" /\ "network" \in hkLast.fails /\ hkLast.hadOk
    /\ ~hkLast.gave /\ hkResults.tag # "current"

(***************************************************************************)
(* Claims about the geocoding effects, the selection handlers and retries. *)
(***************************************************************************)

\* C4: in SearchBar and ValuationForm a geocoding request issued for an
\* earlier query is cancelled when the query changes, so a response that
\* reaches the suggestion list or the place-selection callback is always
\* the response for the latest query.
C4_OnlyLatestQuery ==
    (mounted \in GeoComponents /\ geLast.how = "response") => geLast.q = geLatest

\* C5: last selection wins: once no lookup is in flight, the selected
\* property is the one the user selected last, and the property details
\* and the POI panel, when the lookups of the last selection have written
\* them, describe the last selection.
C5_LastSelectionWins ==
    (mounted = SEL /\ seLookups = <<>>) =>
        /\ seLatest.property # NULL => seSelected = seLatest.property
        /\ seFresh.details => seDetails = seLatest.property
        /\ seFresh.poi => sePOI = seLatest.poi

\* C6: geocoding is debounced: a request is issued only when the text has
\* been unchanged for the full delay (300 ms in SearchBar, 1500 ms in
\* ValuationForm), it is for the final text, and at most one request is
\* issued for a text once it has stopped changing.
C6_Debounced ==
    mounted \in GeoComponents =>
        /\ geLast.how = "request" =>
               (geSince >= Delay(mounted) /\ geLast.q = Trim(geQ))
        /\ geCount <= 1

\* C9 (as stated): no request is retried: for one setting of its key (or
\* one call of refetch) a query issues its request at most once.
C9_NoRetry == quFetches <= 1

\* C9 (amended), the client part: useGooglePlaces issues the request of a
\* query at most three times (the first attempt and two retries) and
\* reports the error only after the third failure; the requests of
\* useBuildingImages and useCommunityImages are issued once, since their
\* query functions never reject.
C9_QueryRetries ==
    mounted \in QueryHooks =>
        /\ mounted = GP => (quFetches <= 3 /\ (quStatus = "error" => quFetches = 3))
        /\ mounted \in {BI, CI} => (quFetches <= 1 /\ quStatus # "error")
        /\ quStatus = "fetching" => quFetches = quFailureCount + 1

\* C9 (amended), the server part: a route issues its upstream request only
\* when a request arrives, never again for a request it has fetched for.
C9_ServerStep ==
    \A s \in Slots : reqs'[s].phase = "fetching" => reqs[s].phase \in {"idle", "fetching"}

\* C9 (amended): the only retried request is that of useGooglePlaces, at
\* most twice; server routes and the other queries issue a request once.
C9_RetryOnlyInGooglePlaces == []C9_QueryRetries /\ [][C9_ServerStep]_vars

\* C9 witness: useGooglePlaces has given up after its third failed request.
C9_Witness ==
    mounted = GP /\ quStatus = "error" /\ quFetches = 3 /\ quFailureCount = 3

(***************************************************************************)
(* Claims about GET /api/places/nearby.                                    *)
(***************************************************************************)

\* C12: with a key, lat and lng, the answer of GET /api/places/nearby to an
\* upstream answer is either an error or {buildings: [...]} with status 200,
\* in which every entry is an upstream result whose types include building,
\* establishment, premise or point_of_interest; the list is empty when the
\* upstream answer carries no results.
C12_BuildingsAreRelevantResults ==
    (mounted = PLACES /\ fnResult.returned) =>
        IF fnResult.status = 200
        THEN /\ fnArgs.ok
             /\ \A k \in 1..Len(fnResult.buildings) :
                   LET b == fnResult.buildings[k]
                   IN  /\ b.placeId \in 1..Len(fnArgs.results)
                       /\ b.types = fnArgs.results[b.placeId].types
                       /\ b.types \cap {"building", "establishment", "premise",
                                        "point_of_interest"} # {}
             /\ (~fnArgs.hasResults \/ fnArgs.results = <<>>) => fnResult.buildings = <<>>
        ELSE fnResult.error # "none" /\ fnResult.buildings = <<>>

\* C12 witness: the route answered 200 with one upstream result kept and
\* another one dropped.
C12_Witness ==
    /\ mounted = PLACES /\ fnResult.returned /\ fnResult.status = 200
    /\ Len(fnArgs.results) >= 2
    /\ Len(fnResult.buildings) >= 1
    /\ Len(fnResult.buildings) < Len(fnArgs.results)

(***************************************************************************)
(* Claims about circlePolygon.                                             *)
(***************************************************************************)

\* C13: circlePolygon returns points + 1 coordinates of which the first and
\* the last are identical, for every center, radius and points >= 1.
C13_ClosedRing ==
    (mounted = CIRCLE /\ fnResult.returned) =>
        /\ Len(fnResult.coords) = fnArgs.points + 1
        /\ fnResult.coords[1] = fnResult.coords[Len(fnResult.coords)]

(***************************************************************************)
(* Claims about the amenity classifiers.                                   *)
(***************************************************************************)

\* C14: the label a classifier produced for a place, fed back into the
\* classifier, yields the same label.
C14_Idempotent ==
    (mounted \in {CATEGORIZE, GETCATEGORY} /\ fnResult.returned
        /\ fnResult.again # "none") => fnResult.again = fnResult.label

(***************************************************************************)
(* Claims about the Mapbox requests of the map.                            *)
(***************************************************************************)

\* C15: every Mapbox request carries a non-empty access token, the token
\* prop or, when that is empty, the local-storage entry; with both empty no
\* request is sent.
C15_RequestsCarryToken ==
    mounted = MAPREQ =>
        \A r \in mrSent :
            /\ r.token # ""
            /\ r.token = (IF r.prop # "" THEN r.prop ELSE r.stored)

(***************************************************************************)
(* Claims about the lifetime of amenity results.                           *)
(***************************************************************************)

\* C16: once the selection is cleared (center is null, and there is no
\* route), useAmenities and useSearchBoxAmenities hold no amenity result
\* fetched for the previous selection; stated for the hooks while their
\* token stays available.
C16_NoResultsWithoutSelection ==
    (mounted \in EffectHooks /\ hkToken # "" /\ hkCenter = NULL /\ hkRoute = NULL) =>
        hkResults.from = {}

(***************************************************************************)
(* Claims about the tool toggles of the page.                              *)
(***************************************************************************)

\* C17: after any sequence of handleDirectionsToggle, handleIsochroneToggle
\* and handleRouteTo calls, several of them handled within one render
\* included, directionsEnabled and isochroneSettings.enabled are not both
\* true.
C17_NeverBothEnabled ==
    mounted \in Pages => ~(directionsEnabled /\ isochroneEnabled)

(***************************************************************************)
(* Claims about the 3d-buildings layer.                                    *)
(***************************************************************************)

\* Nothing is pending: the style is loaded, the directions control is
\* imported, no Directions request of routeTo is in flight.
Settled3D ==
    b3StyleLoaded /\ ~b3Import /\ b3Fetches = 0 /\ ~b3Retry

\* C18: after any sequence of toggles, route requests and style reloads,
\* once pending effects have run, the visibility of 3d-buildings is 'none'
\* if isochrone.enabled or directionsEnabled is true and 'visible' otherwise.
C18_VisibleUnlessToolEnabled ==
    (mounted = MAP3D /\ Settled3D) =>
        b3Layer = (IF b3Iso \/ b3Dir THEN "none" ELSE "visible")

(***************************************************************************)
(* Claims about building selection.                                        *)
(***************************************************************************)

FlightKinds == {"request", "selected", "route"}

\* What the claim says of the requests: a request is executed only if its
\* timestamp is greater than that of the last executed one,
\* lastFlyToTimestamp never decreases, no request is executed twice.
RequestsExecutedOnce ==
    /\ lastFlight.kind = "request" =>
          /\ lastFlight.timestamp > lastFlight.previous
          /\ lastFlyToTimestamp = lastFlight.timestamp
    /\ lastFlight.previous <= lastFlyToTimestamp
    /\ \A ts \in Timestamps : executed[ts] <= 1
    /\ \A ts \in Timestamps : ts > lastFlyToTimestamp => executed[ts] = 0

\* C20, as stated: a request is executed only if it is new, and no flight
\* of the map starts while flyToInProgress is true.
C20_NoFlightWhileInProgress ==
    mounted = FLY =>
        /\ RequestsExecutedOnce
        /\ lastFlight.kind \in FlightKinds => ~lastFlight.inProgress

\* C20, amended: a flyTo request is executed only if its timestamp is
\* greater than that of the last executed request, so lastFlyToTimestamp
\* never decreases and no request is executed twice; no flight of a flyTo
\* request starts while flyToInProgress is true, and the flag is true only
\* while the timer that resets it is pending.
C20_RequestFlightsAreNew ==
    mounted = FLY =>
        /\ RequestsExecutedOnce
        /\ lastFlight.kind = "request" => ~lastFlight.inProgress
        /\ flyToInProgress => flyTimer

\* C20 witness: a request was executed, its flight ended, and a request
\* with the same timestamp was then skipped.
C20_Witness ==
    /\ mounted = FLY
    /\ flyTo # NoFlyTo /\ flyTo = lastFlyToTimestamp /\ flyTo > 0
    /\ executed[flyTo] = 1
    /\ lastFlight.kind = "skipped" /\ lastFlight.timestamp = flyTo
    /\ ~lastFlight.inProgress

\* C21 (as stated): every flyTo request with a fresh timestamp eventually
\* takes effect: the map eventually flies to the target of the current
\* request, also when the request arrived while an earlier flight was in
\* progress (a request whose map.flyTo threw is left aside).
C21_RequestEventuallyFlies ==
    []<>(~flyReq.fresh \/ flyReq.reached \/ flyReq.threw)

\* C22 (as stated): in useSearchBoxAmenities loading is true for as long as
\* the run for the current inputs is in flight; no event, the completion of
\* an earlier aborted run included, sets it to false before.
C22_LoadingWhileInFlight ==
    (mounted = SB /\ hkCur.st = "active") => hkLoading

\* C23 (as stated): in useAmenities loading never stays true forever: once
\* no request for the current inputs is in flight, also after center has
\* been set back to null, loading is eventually false.
C23_LoadingEventuallyFalse ==
    (mounted = AM /\ hkCur.st # "active") ~> ~hkLoading

\* C24 (as stated): while isochrones are disabled the map shows none: from
\* the moment the effect for isochrone.enabled = false has run until
\* isochrones are enabled again, the map has no 'isochrones' source and no
\* isochrone layer, whatever responses to earlier requests arrive.
C24_NoIsochronesWhileDisabled ==
    (mounted \in IsochroneMaps /\ isRemoved) => ~isShown

\* C25 (as stated): at most one directions control is attached to the map,
\* and once directions are disabled and the clean-up has run, no directions
\* control, route click handler or route line stays attached, also when the
\* toggle changed while the directions module was being loaded.
C25_NoDirectionsLeftAttached ==
    mounted = DIRS =>
        /\ dcAttached <= 1
        /\ ~dcEnabled => (dcAttached = 0 /\ dcHandlers = 0 /\ ~dcRouteLine)

Components == {"server"} \cup Hooks \cup GeoComponents \cup {SEL} \cup QueryHooks
                  \cup FunctionNames \cup Pages \cup {MAPREQ, MAP3D}
                  \cup SelectionMaps \cup {FLY} \cup IsochroneMaps \cup {DIRS}

Init ==
    /\ mounted \in Components
    /\ InitServer /\ InitHooks /\ InitGeo /\ InitSel /\ InitQuery /\ InitFunctions
    /\ InitPage /\ InitMapRequests /\ InitMap3D
    /\ InitSelectionMap /\ InitFlights /\ InitIsochrone /\ InitDirections
    /\ mounted = "server" => hkToken = ""
    /\ mounted # "server" => apiKey = "unset"
    /\ mounted \notin GeoComponents => geToken = ""
    /\ mounted # SEL => seToken = ""

Next ==
    \/ NextServer \/ NextHooks \/ NextGeo \/ NextSel \/ NextQuery \/ NextFunctions
    \/ NextPage \/ NextMapRequests \/ NextMap3D \/ NextSelectionMap
    \/ NextFlights \/ NextIsochrone \/ NextDirections

Spec == Init /\ [][Next]_vars

InitServerOnly == Init /\ mounted = "server"
SpecServer == InitServerOnly /\ [][NextServer]_vars

InitHooksOnly == Init /\ mounted \in Hooks
SpecHooks == InitHooksOnly /\ [][NextHooks]_vars

InitGeoOnly == Init /\ mounted \in GeoComponents
SpecGeo == InitGeoOnly /\ [][NextGeo]_vars

InitSelOnly == Init /\ mounted = SEL
SpecSel == InitSelOnly /\ [][NextSel]_vars

InitIsochroneOnly == Init /\ mounted \in IsochroneMaps
SpecIsochrone == InitIsochroneOnly /\ [][NextIsochrone]_vars

InitDirectionsOnly == Init /\ mounted = DIRS
SpecDirections == InitDirectionsOnly /\ [][NextDirections]_vars

InitPageOnly == Init /\ mounted \in Pages
SpecPage == InitPageOnly /\ [][NextPage]_vars

InitMapRequestsOnly == Init /\ mounted = MAPREQ
SpecMapRequests == InitMapRequestsOnly /\ [][NextMapRequests]_vars

InitMap3DOnly == Init /\ mounted = MAP3D
SpecMap3D == InitMap3DOnly /\ [][NextMap3D]_vars

InitSelectionMapOnly == Init /\ mounted \in SelectionMaps
SpecSelectionMap == InitSelectionMapOnly /\ [][NextSelectionMap]_vars

InitFlightsOnly == Init /\ mounted = FLY
SpecFlights == InitFlightsOnly /\ [][NextFlights]_vars

\* Every fetch in flight is eventually answered or fails; the changes of
\* the props are the page's and are under no fairness condition.
HookResponds ==
    \/ \E x \in DOMAIN hkCur.subs, o \in {"ok"} \cup FailedOutcomes : Respond(x, o)
    \/ \E x \in DOMAIN hkOld.subs, o \in {"ok"} \cup FailedOutcomes : RespondOld(x, o)

SpecHooksFair == SpecHooks /\ WF_vars(HookResponds)

\* The 3000 ms timer armed by an executed request fires; the page's requests
\* are the user's and are under no fairness condition.
SpecFlightsFair == SpecFlights /\ WF_vars(FlyTimerFires)

InitFunctionsOnly == Init /\ mounted \in FunctionNames
SpecFunctions == InitFunctionsOnly /\ [][NextFunctions]_vars

\* The requests of the server routes and of the react-query hooks.
InitRequests == Init /\ mounted \in {"server"} \cup QueryHooks
NextRequests == NextServer \/ NextQuery
SpecRequests == InitRequests /\ [][NextRequests]_vars
====
